---- MODULE Spec2Model ----
(***************************************************************************)
(* Brand-isolated data-access layer of @percytech/shared-database:         *)
(* CustomerOperations and ConversationOperations over the three tables of  *)
(* schemas/tables.sql (customers, conversations, messages).                *)
(*                                                                         *)
(* The hosted store is modelled by what the schema declares: primary keys, *)
(* the UNIQUE and FOREIGN KEY constraints, column defaults and the         *)
(* BEFORE UPDATE triggers.  Every call to the store may also fail with an  *)
(* error that is not "no rows" (network failure, rejected request, a row   *)
(* level security policy whose session setting was never set): the `fault` *)
(* parameter of each action.  Apart from that outcome the row level        *)
(* security policies do not filter: the code never sets app.current_brand. *)
(*                                                                         *)
(* Each action is one segment of a method between two awaits, so a method  *)
(* with one store call is one action and a method with two store calls is  *)
(* two actions that other callers can interleave with.                     *)
(***************************************************************************)
EXTENDS Integers, Sequences, FiniteSets, TLC

VARIABLES customers, conversations, messages, now, procs, last,
          supabaseClient, env, created, brandClients

\* the module state of client/supabase.ts: the singleton, process.env, the
\* number of createClient calls made, the BrandAwareSupabase objects built
clientVars == <<supabaseClient, env, created, brandClients>>

vars == <<customers, conversations, messages, now, procs, last,
          supabaseClient, env, created, brandClients>>

-----------------------------------------------------------------------------
(* Bounds *)

MaxCustomers == 2
MaxConversations == 2
MaxMessages == 2
MaxTime == 2

\* the callers whose calls (of methods with two store calls) can be in flight
\* together; methods with one store call are called by anyone at any time
Procs == {"c1", "c2"}

-----------------------------------------------------------------------------
(* Values *)

\* SQL NULL / JS undefined for text columns, and for ids and timestamps
NullStr == "<null>"
Undefined == "<undefined>"
NullTime == 0
NullId == 0

\* nullable array column: None is NULL, Some(s) is the array s
None == <<>>
Some(s) == <<s>>

BRAND_IDS == <<"gnymble", "percymd", "percytext">>

CustomerStage == {"lead", "marketing", "trial", "active", "churned", "dormant"}

ConversationStatus == {"active", "paused", "completed", "archived"}

MessageDirection == {"inbound", "outbound"}

\* BrandContext values handed to createBrandClient: one client per brand,
\* the first with a caller identity, the others without (user_id undefined)
Contexts ==
  { [brand_id |-> BRAND_IDS[i],
     user_id |-> IF i = 1 THEN "user-123" ELSE Undefined] : i \in 1..2 }

-----------------------------------------------------------------------------
(* client/supabase.ts: the singleton connection *)

\* let supabaseClient = null
NullClient == [id |-> NullId, url |-> Undefined, key |-> Undefined]

\* createClient<Database>(url, key, ...): a new handle each time it is called
CreateClient(url, key) == [id |-> created + 1, url |-> url, key |-> key]

\* process.env with NEXT_PUBLIC_SUPABASE_URL and NEXT_PUBLIC_SUPABASE_ANON_KEY set
ConfiguredEnv == [url |-> "https://env.supabase.co", key |-> "env-anon-key"]

\* the module state after createBrandClient for every context of Contexts,
\* which is how the callers of the operations below got their clients
Connected ==
  /\ env = ConfiguredEnv
  /\ created = 1
  /\ supabaseClient = [id |-> 1, url |-> ConfiguredEnv.url, key |-> ConfiguredEnv.key]
  /\ brandClients = {[brandContext |-> ctx, client |-> supabaseClient] : ctx \in Contexts}

-----------------------------------------------------------------------------
(* PostgREST responses *)

NoError == [code |-> "", message |-> ""]
NoRow == [id |-> NullId]

PGRST116 == [code |-> "PGRST116", message |-> "JSON object requested, multiple (or no) rows returned"]
StoreFault == [code |-> "XX000", message |-> "request failed"]
UniqueViolation == [code |-> "23505", message |-> "duplicate key value violates unique constraint"]
ForeignKeyViolation == [code |-> "23503", message |-> "violates foreign key constraint"]

\* .single(): exactly one row or the PGRST116 error
Single(rows) ==
  IF Len(rows) = 1 THEN [data |-> rows[1], error |-> NoError]
  ELSE [data |-> NoRow, error |-> PGRST116]

\* {...a, ...b}: the fields of b win
Spread(a, b) == b @@ a

\* JSON.stringify of a request body drops the keys whose value is undefined
TextKeys == {"opt_out_reason", "created_by", "campaign_id", "campaign_name"}
Json(body) ==
  [f \in {g \in DOMAIN body : ~(g \in TextKeys /\ body[g] = Undefined)} |-> body[f]]

\* UPDATE ... SET patch WHERE P, with the BEFORE UPDATE trigger
\* update_updated_at_column applied to every row that is updated
UpdateWhere(tbl, patch, P(_)) ==
  [i \in 1..Len(tbl) |->
     IF P(tbl[i])
     THEN [f \in DOMAIN tbl[i] |->
             IF f = "updated_at" THEN now
             ELSE IF f \in DOMAIN patch THEN patch[f] ELSE tbl[i][f]]
     ELSE tbl[i]]

\* the orders in which the store may return rows
RowOrders(rows) ==
  {s \in [1..Len(rows) -> {rows[i] : i \in 1..Len(rows)}] :
     \A i, j \in 1..Len(rows) : i # j => s[i] # s[j]}

\* .order(column, { ascending: false }): descending, NULLs first, ties in any order
DescKey(t) == IF t = NullTime THEN MaxTime + 1 ELSE t
OrderDesc(rows, Key(_)) ==
  {s \in RowOrders(rows) :
     \A i, j \in 1..Len(rows) : i < j => DescKey(Key(s[i])) >= DescKey(Key(s[j]))}

\* .limit(n)
Limit(rows, n) == SubSeq(rows, 1, IF Len(rows) < n THEN Len(rows) ELSE n)

\* the characters of the text values used by the callers
Text(v) ==
  CASE v = "a@x.com" -> <<"a", "@", "x", ".", "c", "o", "m">>
    [] v = "b@x.com" -> <<"b", "@", "x", ".", "c", "o", "m">>
    [] v = "+15551234567" -> <<"+", "1", "5", "5", "5", "1", "2", "3", "4", "5", "6", "7">>
    [] v = "+15557654321" -> <<"+", "1", "5", "5", "5", "7", "6", "5", "4", "3", "2", "1">>
    [] v = "Ann" -> <<"A", "n", "n">>
    [] v = "welcome" -> <<"w", "e", "l", "c", "o", "m", "e">>
    [] v = "A@" -> <<"A", "@">>
    [] v = "555" -> <<"5", "5", "5">>
    [] v = "ann" -> <<"a", "n", "n">>
    [] v = "COM" -> <<"C", "O", "M">>

LowerChar(c) ==
  CASE c = "A" -> "a" [] c = "C" -> "c" [] c = "O" -> "o" [] c = "M" -> "m" [] OTHER -> c

Lower(t) == [i \in 1..Len(t) |-> LowerChar(t[i])]

\* column ILIKE %query%: a case-insensitive substring match, never true of NULL
ILike(v, query) ==
  /\ v # NullStr
  /\ LET t == Lower(Text(v))
         q == Lower(Text(query))
     IN \E i \in 0..(Len(t) - Len(q)) : SubSeq(t, i + 1, i + Len(q)) = q

-----------------------------------------------------------------------------
(* In-flight calls and the most recently completed call *)

Idle == [pc |-> "idle"]
InFlight(q) == procs[q].pc # "idle"
Busy == \E q \in Procs : InFlight(q)
OthersBusy(p) == \E q \in Procs \ {p} : InFlight(q)

\* a step by someone else happened while q was in flight
Overlapped(q) == IF InFlight(q) THEN [procs[q] EXCEPT !.overlap = TRUE] ELSE procs[q]

\* a caller with one store call: every call in flight has been overlapped
Bystanders ==
  /\ procs' = [q \in Procs |-> Overlapped(q)]
  /\ UNCHANGED clientVars

\* proc p moves to record r, the others are overlapped
Moves(p, r) ==
  /\ procs' = [q \in Procs |-> IF q = p THEN r ELSE Overlapped(q)]
  /\ UNCHANGED clientVars

Returned(op, ctx, args, data, ov) ==
  [op |-> op, brand |-> ctx.brand_id, args |-> args, outcome |-> "ok",
   thrown |-> <<>>, data |-> data, overlap |-> ov]

ReturnedNull(op, ctx, args, ov) ==
  [op |-> op, brand |-> ctx.brand_id, args |-> args, outcome |-> "null",
   thrown |-> <<>>, data |-> NoRow, overlap |-> ov]

\* throw new Error(`${prefix}: ${error.message}`)
Threw(op, ctx, args, prefix, error, ov) ==
  [op |-> op, brand |-> ctx.brand_id, args |-> args, outcome |-> "throw",
   thrown |-> <<prefix, error>>, data |-> NoRow, overlap |-> ov]

\* throw new Error(message)
ThrewPlain(op, ctx, args, message, ov) ==
  [op |-> op, brand |-> ctx.brand_id, args |-> args, outcome |-> "throw",
   thrown |-> <<message>>, data |-> NoRow, overlap |-> ov]

NoCall ==
  [op |-> "", brand |-> "", args |-> <<>>, outcome |-> "", thrown |-> <<>>,
   data |-> NoRow, overlap |-> FALSE]

Init ==
  /\ customers = <<>>
  /\ conversations = <<>>
  /\ messages = <<>>
  /\ now = 1
  /\ procs = [q \in Procs |-> Idle]
  /\ last = NoCall
  /\ Connected

\* the clock that new Date() and NOW() read
Tick ==
  /\ now < MaxTime
  /\ now' = now + 1
  /\ UNCHANGED <<customers, conversations, messages, procs, last, clientVars>>

-----------------------------------------------------------------------------
(* customers table (tables.sql) *)

CustomerColumnDefaults(id) ==
  [id |-> id, phone |-> NullStr, first_name |-> NullStr, last_name |-> NullStr,
   stage |-> "lead", source |-> "website", is_active |-> TRUE,
   marketing_qualified_at |-> NullTime, trial_started_at |-> NullTime,
   subscribed_at |-> NullTime, churned_at |-> NullTime, tags |-> None,
   created_at |-> now, updated_at |-> now, created_by |-> NullStr]

\* an email unique over the whole table, whatever the brand
customers_email_unique_anyBrand(tbl, r) ==
  \A i \in 1..Len(tbl) : i # r.id => tbl[i].email # r.email

\* CONSTRAINT customers_brand_email_unique UNIQUE (brand_id, email):
\* tbl with row r put at position r.id still satisfies it
customers_brand_email_unique(tbl, r) ==
  \A i \in 1..Len(tbl) :
    i # r.id => ~(tbl[i].brand_id = r.brand_id /\ tbl[i].email = r.email)

\* a customers table without the constraint on phones
customers_phone_unconstrained(tbl, r) == TRUE

\* CONSTRAINT customers_brand_phone_unique UNIQUE (brand_id, phone); NULLs never conflict
customers_brand_phone_unique(tbl, r) ==
  \A i \in 1..Len(tbl) :
    i # r.id => ~(r.phone # NullStr /\ tbl[i].brand_id = r.brand_id /\ tbl[i].phone = r.phone)

\* a customers table without its unique constraints
CustomerConstraintError_unconstrained(tbl, r) == NoError

CustomerConstraintError(tbl, r) ==
  IF ~customers_brand_email_unique(tbl, r) THEN UniqueViolation
  ELSE IF ~customers_brand_phone_unique(tbl, r) THEN UniqueViolation
  ELSE NoError

\* .from("customers").insert(body).select().single()
InsertCustomer(body, fault) ==
  LET r == Spread(CustomerColumnDefaults(Len(customers) + 1), Json(body))
      e == IF fault THEN StoreFault ELSE CustomerConstraintError(customers, r)
  IN IF e # NoError THEN [error |-> e, data |-> NoRow, table |-> customers]
     ELSE [error |-> NoError, data |-> r, table |-> Append(customers, r)]

\* the update without its .eq("brand_id", b)
UpdateCustomer_anyBrand(body, id, b, fault) ==
  LET Hit(r) == r.id = id
      tbl == UpdateWhere(customers, Json(body), Hit)
      hits == SelectSeq(tbl, Hit)
  IN IF fault THEN [error |-> StoreFault, data |-> NoRow, table |-> customers]
     ELSE [error |-> Single(hits).error, data |-> Single(hits).data, table |-> tbl]

\* .from("customers").update(body).eq("id", id).eq("brand_id", b).select().single()
UpdateCustomer(body, id, b, fault) ==
  LET Hit(r) == r.id = id /\ r.brand_id = b
      tbl == UpdateWhere(customers, Json(body), Hit)
      hits == SelectSeq(tbl, Hit)
      e == IF fault THEN StoreFault
           ELSE IF Len(hits) = 0 THEN NoError
           ELSE CustomerConstraintError(customers, hits[1])
  IN IF e # NoError THEN [error |-> e, data |-> NoRow, table |-> customers]
     ELSE [error |-> Single(hits).error, data |-> Single(hits).data, table |-> tbl]

\* BrandAwareSupabase.customers: .from('customers').select('*').eq('brand_id', brand_id)
BrandCustomers(ctx) ==
  LET OfBrand(r) == r.brand_id = ctx.brand_id
  IN SelectSeq(customers, OfBrand)

-----------------------------------------------------------------------------
(* CustomerOperations *)

\* data[k] || d: d when the key is absent, undefined or the empty string
OrElse(data, k, d) ==
  IF k \in DOMAIN data /\ data[k] \notin {Undefined, ""} THEN data[k] ELSE d

\* create whose input fields win over the stamped ones
CustomerCreate_inputWins(op, ctx, args, data, fault, ov) ==
  LET customerData ==
        Spread([brand_id |-> ctx.brand_id,
                stage |-> OrElse(data, "stage", "lead"),
                source |-> OrElse(data, "source", "website"),
                is_active |-> TRUE,
                created_at |-> now,
                updated_at |-> now,
                created_by |-> ctx.user_id],
               data)
      res == InsertCustomer(customerData, fault)
  IN [table |-> res.table,
      last |-> IF res.error # NoError
               THEN Threw(op, ctx, args, "Failed to create customer", res.error.message, ov)
               ELSE Returned(op, ctx, args, res.data, ov)]

\* the body of create(data), ov: another call is in flight
CustomerCreate(op, ctx, args, data, fault, ov) ==
  LET customerData ==
        Spread(data,
               [brand_id |-> ctx.brand_id,
                stage |-> OrElse(data, "stage", "lead"),
                source |-> OrElse(data, "source", "website"),
                is_active |-> TRUE,
                created_at |-> now,
                updated_at |-> now,
                created_by |-> ctx.user_id])
      res == InsertCustomer(customerData, fault)
  IN [table |-> res.table,
      last |-> IF res.error # NoError
               THEN Threw(op, ctx, args, "Failed to create customer", res.error.message, ov)
               ELSE Returned(op, ctx, args, res.data, ov)]

Customers_create(ctx, data, fault) ==
  LET out == CustomerCreate("customers.create", ctx, [data |-> data], data, fault, Busy)
  IN /\ out.last.outcome = "ok" => Len(customers) < MaxCustomers
     /\ customers' = out.table
     /\ last' = out.last
     /\ Bystanders
     /\ UNCHANGED <<conversations, messages, now>>

\* a single-row lookup on the brand's customers: null on PGRST116, throw otherwise
CustomerLookup(op, ctx, args, Match(_), prefix, fault, ov) ==
  LET res == IF fault THEN [data |-> NoRow, error |-> StoreFault]
             ELSE Single(SelectSeq(BrandCustomers(ctx), Match))
  IN IF res.error # NoError
     THEN (IF res.error.code = "PGRST116" THEN ReturnedNull(op, ctx, args, ov)
           ELSE Threw(op, ctx, args, prefix, res.error.message, ov))
     ELSE Returned(op, ctx, args, res.data, ov)

Customers_getById(ctx, id, fault) ==
  LET Match(r) == r.id = id
  IN /\ last' = CustomerLookup("customers.getById", ctx, [id |-> id], Match,
                               "Failed to get customer", fault, Busy)
     /\ Bystanders
     /\ UNCHANGED <<customers, conversations, messages, now>>

Customers_getByEmail(ctx, email, fault) ==
  LET Match(r) == r.email = email
  IN /\ last' = CustomerLookup("customers.getByEmail", ctx, [email |-> email], Match,
                               "Failed to get customer by email", fault, Busy)
     /\ Bystanders
     /\ UNCHANGED <<customers, conversations, messages, now>>

Customers_getByPhone(ctx, phone, fault) ==
  LET Match(r) == r.phone = phone
  IN /\ last' = CustomerLookup("customers.getByPhone", ctx, [phone |-> phone], Match,
                               "Failed to get customer by phone", fault, Busy)
     /\ Bystanders
     /\ UNCHANGED <<customers, conversations, messages, now>>

\* the body of update(id, data)
CustomerUpdate(op, ctx, args, id, data, fault, ov) ==
  LET updateData == Spread(data, [updated_at |-> now])
      res == UpdateCustomer(updateData, id, ctx.brand_id, fault)
  IN [table |-> res.table,
      last |-> IF res.error # NoError
               THEN Threw(op, ctx, args, "Failed to update customer", res.error.message, ov)
               ELSE Returned(op, ctx, args, res.data, ov)]

Customers_update(ctx, id, data, fault) ==
  LET out == CustomerUpdate("customers.update", ctx, [id |-> id, data |-> data],
                            id, data, fault, Busy)
  IN /\ customers' = out.table
     /\ last' = out.last
     /\ Bystanders
     /\ UNCHANGED <<conversations, messages, now>>

\* progressStage that also marks the customer active again on "active"
Customers_progressStage_reactivates(ctx, id, newStage, fault) ==
  LET updateData ==
        CASE newStage = "marketing" -> [stage |-> newStage, marketing_qualified_at |-> now]
          [] newStage = "trial" -> [stage |-> newStage, trial_started_at |-> now]
          [] newStage = "active" -> [stage |-> newStage, subscribed_at |-> now, is_active |-> TRUE]
          [] newStage = "churned" -> [stage |-> newStage, churned_at |-> now, is_active |-> FALSE]
          [] OTHER -> [stage |-> newStage]
      out == CustomerUpdate("customers.progressStage", ctx,
                            [id |-> id, newStage |-> newStage], id, updateData, fault, Busy)
  IN /\ customers' = out.table
     /\ last' = out.last
     /\ Bystanders
     /\ UNCHANGED <<conversations, messages, now>>

\* progressStage that leaves is_active alone on "churned"
Customers_progressStage_keepsActive(ctx, id, newStage, fault) ==
  LET updateData ==
        CASE newStage = "marketing" -> [stage |-> newStage, marketing_qualified_at |-> now]
          [] newStage = "trial" -> [stage |-> newStage, trial_started_at |-> now]
          [] newStage = "active" -> [stage |-> newStage, subscribed_at |-> now]
          [] newStage = "churned" -> [stage |-> newStage, churned_at |-> now]
          [] OTHER -> [stage |-> newStage]
      out == CustomerUpdate("customers.progressStage", ctx,
                            [id |-> id, newStage |-> newStage], id, updateData, fault, Busy)
  IN /\ customers' = out.table
     /\ last' = out.last
     /\ Bystanders
     /\ UNCHANGED <<conversations, messages, now>>

\* progressStage(id, newStage): the switch, then return this.update(id, updateData)
Customers_progressStage(ctx, id, newStage, fault) ==
  LET updateData ==
        CASE newStage = "marketing" -> [stage |-> newStage, marketing_qualified_at |-> now]
          [] newStage = "trial" -> [stage |-> newStage, trial_started_at |-> now]
          [] newStage = "active" -> [stage |-> newStage, subscribed_at |-> now]
          [] newStage = "churned" -> [stage |-> newStage, churned_at |-> now, is_active |-> FALSE]
          [] OTHER -> [stage |-> newStage]
      out == CustomerUpdate("customers.progressStage", ctx,
                            [id |-> id, newStage |-> newStage], id, updateData, fault, Busy)
  IN /\ customers' = out.table
     /\ last' = out.last
     /\ Bystanders
     /\ UNCHANGED <<conversations, messages, now>>

\* findOrCreate that goes on to create whatever the lookup returned
Customers_findOrCreate_getByEmail_alwaysCreates(p, ctx, email, data, fault) ==
  /\ ~InFlight(p)
  /\ Moves(p, [pc |-> "customers.findOrCreate.create", ctx |-> ctx,
               args |-> [email |-> email, data |-> data], overlap |-> OthersBusy(p)])
  /\ UNCHANGED <<customers, conversations, messages, now, last>>

\* findOrCreate(email, data) up to the await of getByEmail
Customers_findOrCreate_getByEmail(p, ctx, email, data, fault) ==
  LET Match(r) == r.email = email
      args == [email |-> email, data |-> data]
      existing == CustomerLookup("customers.findOrCreate", ctx, args, Match,
                                 "Failed to get customer by email", fault, OthersBusy(p))
  IN /\ ~InFlight(p)
     /\ IF existing.outcome = "null"
        THEN /\ Moves(p, [pc |-> "customers.findOrCreate.create", ctx |-> ctx,
                          args |-> args, overlap |-> OthersBusy(p)])
             /\ UNCHANGED last
        ELSE /\ Moves(p, Idle)
             /\ last' = existing
     /\ UNCHANGED <<customers, conversations, messages, now>>

\* findOrCreate: return this.create({ email, ...data })
Customers_findOrCreate_create(p, fault) ==
  /\ procs[p].pc = "customers.findOrCreate.create"
  /\ LET c == procs[p]
         out == CustomerCreate("customers.findOrCreate", c.ctx, c.args,
                               Spread([email |-> c.args.email], c.args.data),
                               fault, c.overlap \/ OthersBusy(p))
     IN /\ out.last.outcome = "ok" => Len(customers) < MaxCustomers
        /\ customers' = out.table
        /\ last' = out.last
        /\ Moves(p, Idle)
  /\ UNCHANGED <<conversations, messages, now>>

\* [...new Set(s)]: first occurrences, in order
\* a list that keeps its duplicates
Dedupe_keepsAll(s) == s

RECURSIVE Dedupe(_)
Dedupe(s) ==
  IF s = <<>> THEN <<>>
  ELSE LET init == Dedupe(SubSeq(s, 1, Len(s) - 1))
           x == s[Len(s)]
       IN IF \E i \in 1..Len(init) : init[i] = x THEN init ELSE Append(init, x)

\* customer.tags || []
TagsOrEmpty(customer) == IF customer.tags = None THEN <<>> ELSE customer.tags[1]

\* addTags / removeTags up to the await of getById
TagsGetById(op, next, p, ctx, id, tags, fault) ==
  LET Match(r) == r.id = id
      args == [id |-> id, tags |-> tags]
      customer == CustomerLookup(op, ctx, args, Match, "Failed to get customer",
                                 fault, OthersBusy(p))
  IN /\ ~InFlight(p)
     /\ CASE customer.outcome = "throw" -> Moves(p, Idle) /\ last' = customer
          [] customer.outcome = "null" ->
               /\ Moves(p, Idle)
               /\ last' = ThrewPlain(op, ctx, args, "Customer not found", OthersBusy(p))
          [] OTHER ->
               /\ Moves(p, [pc |-> next, ctx |-> ctx, args |-> args,
                            customer |-> customer.data, overlap |-> OthersBusy(p)])
               /\ UNCHANGED last
     /\ UNCHANGED <<customers, conversations, messages, now>>

\* addTags / removeTags: return this.update(id, { tags: newTags })
TagsUpdate(op, p, newTags, fault) ==
  LET c == procs[p]
      out == CustomerUpdate(op, c.ctx, c.args, c.args.id, [tags |-> Some(newTags)],
                            fault, c.overlap \/ OthersBusy(p))
  IN /\ customers' = out.table
     /\ last' = out.last
     /\ Moves(p, Idle)
     /\ UNCHANGED <<conversations, messages, now>>

Customers_addTags_getById(p, ctx, id, tags, fault) ==
  TagsGetById("customers.addTags", "customers.addTags.update", p, ctx, id, tags, fault)

\* addTags that reads the stored tags again when it writes
Customers_addTags_update_rereads(p, fault) ==
  /\ procs[p].pc = "customers.addTags.update"
  /\ LET existingTags == TagsOrEmpty(customers[procs[p].args.id])
         newTags == Dedupe(existingTags \o procs[p].args.tags)
     IN TagsUpdate("customers.addTags", p, newTags, fault)

Customers_addTags_update(p, fault) ==
  /\ procs[p].pc = "customers.addTags.update"
  /\ LET existingTags == TagsOrEmpty(procs[p].customer)
         newTags == Dedupe(existingTags \o procs[p].args.tags)
     IN TagsUpdate("customers.addTags", p, newTags, fault)

Customers_removeTags_getById(p, ctx, id, tags, fault) ==
  TagsGetById("customers.removeTags", "customers.removeTags.update", p, ctx, id, tags, fault)

\* removeTags that keeps the tags of T and drops the others
Customers_removeTags_update_inverted(p, fault) ==
  /\ procs[p].pc = "customers.removeTags.update"
  /\ LET existingTags == TagsOrEmpty(procs[p].customer)
         tags == procs[p].args.tags
         Kept(tag) == \E i \in 1..Len(tags) : tags[i] = tag
         newTags == SelectSeq(existingTags, Kept)
     IN TagsUpdate("customers.removeTags", p, newTags, fault)

Customers_removeTags_update(p, fault) ==
  /\ procs[p].pc = "customers.removeTags.update"
  /\ LET existingTags == TagsOrEmpty(procs[p].customer)
         tags == procs[p].args.tags
         Kept(tag) == ~(\E i \in 1..Len(tags) : tags[i] = tag)
         newTags == SelectSeq(existingTags, Kept)
     IN TagsUpdate("customers.removeTags", p, newTags, fault)

\* a list query: the rows on success, a wrapped error otherwise
ListResult(op, ctx, args, rows, prefix, fault) ==
  IF fault THEN Threw(op, ctx, args, prefix, StoreFault.message, Busy)
  ELSE Returned(op, ctx, args, rows, Busy)

CreatedAt(r) == r.created_at

\* getByStage without the filter on is_active
Customers_getByStage_inactiveToo(ctx, stage, limit, fault) ==
  LET Match(r) == r.stage = stage
  IN /\ \E rows \in OrderDesc(SelectSeq(BrandCustomers(ctx), Match), CreatedAt) :
          last' = ListResult("customers.getByStage", ctx, [stage |-> stage, limit |-> limit],
                             Limit(rows, limit), "Failed to get customers by stage", fault)
     /\ Bystanders
     /\ UNCHANGED <<customers, conversations, messages, now>>

\* getByStage(stage, limit)
Customers_getByStage(ctx, stage, limit, fault) ==
  LET Match(r) == r.stage = stage /\ r.is_active = TRUE
  IN /\ \E rows \in OrderDesc(SelectSeq(BrandCustomers(ctx), Match), CreatedAt) :
          last' = ListResult("customers.getByStage", ctx, [stage |-> stage, limit |-> limit],
                             Limit(rows, limit), "Failed to get customers by stage", fault)
     /\ Bystanders
     /\ UNCHANGED <<customers, conversations, messages, now>>

Customers_search(ctx, query, limit, fault) ==
  LET Match(r) ==
        /\ \/ ILike(r.email, query)
           \/ ILike(r.first_name, query)
           \/ ILike(r.last_name, query)
           \/ ILike(r.phone, query)
        /\ r.is_active = TRUE
  IN /\ \E rows \in OrderDesc(SelectSeq(BrandCustomers(ctx), Match), CreatedAt) :
          last' = ListResult("customers.search", ctx, [query |-> query, limit |-> limit],
                             Limit(rows, limit), "Failed to search customers", fault)
     /\ Bystanders
     /\ UNCHANGED <<customers, conversations, messages, now>>

\* number of rows of a sequence that satisfy P
Count(rows, P(_)) == Cardinality({i \in 1..Len(rows) : P(rows[i])})

\* the keys a forEach loop has put in a Record, with their counts
CountBy(rows, Key(_)) ==
  LET keys == {Key(rows[i]) : i \in 1..Len(rows)}
  IN [k \in keys |-> Cardinality({i \in 1..Len(rows) : Key(rows[i]) = k})]

\* record[key] || 0
OrZero(record, k) == IF k \in DOMAIN record THEN record[k] ELSE 0

Customers_getAnalytics(ctx, fault) ==
  LET OfBrand(r) == r.brand_id = ctx.brand_id
      Stage(r) == r.stage
      Source(r) == r.source
      data == SelectSeq(customers, OfBrand)
      byStage == CountBy(data, Stage)
      leads == OrZero(byStage, "lead")
      active == OrZero(byStage, "active")
      analytics ==
        [total |-> Len(data),
         byStage |-> byStage,
         bySource |-> CountBy(data, Source),
         \* (active / leads) * 100 as the fraction <<numerator, denominator>>
         conversionRate |-> IF leads > 0 THEN <<active * 100, leads>> ELSE <<0, 1>>,
         avgTimeToConversion |-> 0]
  IN /\ last' = ListResult("customers.getAnalytics", ctx, <<>>, analytics,
                           "Failed to get customer analytics", fault)
     /\ Bystanders
     /\ UNCHANGED <<customers, conversations, messages, now>>

-----------------------------------------------------------------------------
(* conversations and messages tables (tables.sql) *)

ConversationColumnDefaults(id) ==
  [id |-> id, status |-> "active", campaign_id |-> NullStr, campaign_name |-> NullStr,
   message_count |-> 0, last_message_at |-> NullTime, last_inbound_at |-> NullTime,
   last_outbound_at |-> NullTime, opted_out_at |-> NullTime, opt_out_reason |-> NullStr,
   tags |-> None, created_at |-> now, updated_at |-> now]

\* customer_id UUID NOT NULL REFERENCES customers(id)
conversations_customer_id_fkey(r) == r.customer_id \in 1..Len(customers)

\* CONSTRAINT conversations_brand_phones_unique UNIQUE (brand_id, customer_phone, brand_phone)
conversations_brand_phones_unique(tbl, r) ==
  \A i \in 1..Len(tbl) :
    i # r.id => ~(/\ tbl[i].brand_id = r.brand_id
                  /\ tbl[i].customer_phone = r.customer_phone
                  /\ tbl[i].brand_phone = r.brand_phone)

\* .from("conversations").insert(body).select().single()
InsertConversation(body, fault) ==
  LET r == Spread(ConversationColumnDefaults(Len(conversations) + 1), Json(body))
      e == IF fault THEN StoreFault
           ELSE IF ~conversations_customer_id_fkey(r) THEN ForeignKeyViolation
           ELSE IF ~conversations_brand_phones_unique(conversations, r) THEN UniqueViolation
           ELSE NoError
  IN IF e # NoError THEN [error |-> e, data |-> NoRow, table |-> conversations]
     ELSE [error |-> NoError, data |-> r, table |-> Append(conversations, r)]

\* .from("conversations").update(body).eq("id", id).eq("brand_id", b), without .select():
\* an update that matches no row is not an error
UpdateConversation(body, id, b, fault) ==
  LET Hit(r) == r.id = id /\ r.brand_id = b
      tbl == UpdateWhere(conversations, Json(body), Hit)
  IN IF fault THEN [error |-> StoreFault, rows |-> <<>>, table |-> conversations]
     ELSE [error |-> NoError, rows |-> SelectSeq(tbl, Hit), table |-> tbl]

MessageColumnDefaults(id) ==
  [id |-> id, status |-> NullStr, external_id |-> NullStr,
   sent_at |-> now, delivered_at |-> NullTime, created_at |-> now]

\* conversation_id UUID NOT NULL REFERENCES conversations(id)
messages_conversation_id_fkey(r) == r.conversation_id \in 1..Len(conversations)

\* .from("messages").insert(body).select().single()
InsertMessage(body, fault) ==
  LET r == Spread(MessageColumnDefaults(Len(messages) + 1), Json(body))
      e == IF fault THEN StoreFault
           ELSE IF ~messages_conversation_id_fkey(r) THEN ForeignKeyViolation
           ELSE NoError
  IN IF e # NoError THEN [error |-> e, data |-> NoRow, table |-> messages]
     ELSE [error |-> NoError, data |-> r, table |-> Append(messages, r)]

\* BrandAwareSupabase.conversations: .from('conversations').select('*').eq('brand_id', brand_id)
BrandConversations(ctx) ==
  LET OfBrand(r) == r.brand_id = ctx.brand_id
  IN SelectSeq(conversations, OfBrand)

-----------------------------------------------------------------------------
(* Conversation helpers (types/conversation) *)

isOptedOut(conversation) == conversation.opted_out_at # NullTime

canSendMessage(conversation) ==
  conversation.status = "active" /\ ~isOptedOut(conversation)

\* getLastMessageDirection(conversation): null is NullStr
getLastMessageDirection(conversation) ==
  IF conversation.last_inbound_at = NullTime /\ conversation.last_outbound_at = NullTime
  THEN NullStr
  ELSE IF conversation.last_inbound_at = NullTime THEN "outbound"
  ELSE IF conversation.last_outbound_at = NullTime THEN "inbound"
  ELSE IF conversation.last_inbound_at > conversation.last_outbound_at THEN "inbound"
  ELSE "outbound"

-----------------------------------------------------------------------------
(* ConversationOperations *)

\* the body of create(data)
ConversationCreate(op, ctx, args, data, fault, ov) ==
  LET conversationData ==
        Spread(data,
               [brand_id |-> ctx.brand_id,
                status |-> "active",
                message_count |-> 0,
                created_at |-> now,
                updated_at |-> now])
      res == InsertConversation(conversationData, fault)
  IN [table |-> res.table,
      last |-> IF res.error # NoError
               THEN Threw(op, ctx, args, "Failed to create conversation", res.error.message, ov)
               ELSE Returned(op, ctx, args, res.data, ov)]

Conversations_create(ctx, data, fault) ==
  LET out == ConversationCreate("conversations.create", ctx, [data |-> data], data, fault, Busy)
  IN /\ out.last.outcome = "ok" => Len(conversations) < MaxConversations
     /\ conversations' = out.table
     /\ last' = out.last
     /\ Bystanders
     /\ UNCHANGED <<customers, messages, now>>

\* a single-row lookup on the brand's conversations: null on PGRST116, throw otherwise
ConversationLookup(op, ctx, args, Match(_), prefix, fault, ov) ==
  LET res == IF fault THEN [data |-> NoRow, error |-> StoreFault]
             ELSE Single(SelectSeq(BrandConversations(ctx), Match))
  IN IF res.error # NoError
     THEN (IF res.error.code = "PGRST116" THEN ReturnedNull(op, ctx, args, ov)
           ELSE Threw(op, ctx, args, prefix, res.error.message, ov))
     ELSE Returned(op, ctx, args, res.data, ov)

Conversations_getById(ctx, id, fault) ==
  LET Match(r) == r.id = id
  IN /\ last' = ConversationLookup("conversations.getById", ctx, [id |-> id], Match,
                                   "Failed to get conversation", fault, Busy)
     /\ Bystanders
     /\ UNCHANGED <<customers, conversations, messages, now>>

\* the body of getByPhones(customerPhone, brandPhone)
GetByPhones(op, ctx, args, customerPhone, brandPhone, fault, ov) ==
  LET Match(r) ==
        r.customer_phone = customerPhone /\ r.brand_phone = brandPhone /\ r.status = "active"
  IN ConversationLookup(op, ctx, args, Match, "Failed to get conversation by phones", fault, ov)

Conversations_getByPhones(ctx, customerPhone, brandPhone, fault) ==
  /\ last' = GetByPhones("conversations.getByPhones", ctx,
                         [customerPhone |-> customerPhone, brandPhone |-> brandPhone],
                         customerPhone, brandPhone, fault, Busy)
  /\ Bystanders
  /\ UNCHANGED <<customers, conversations, messages, now>>

\* updateStatus that clears the opt-out when the conversation is set active
Conversations_updateStatus_resubscribes(ctx, id, status, fault) ==
  LET args == [id |-> id, status |-> status]
      body == IF status = "active"
              THEN [status |-> status, updated_at |-> now, opted_out_at |-> NullTime]
              ELSE [status |-> status, updated_at |-> now]
      res == UpdateConversation(body, id, ctx.brand_id, fault)
      one == IF res.error # NoError THEN [data |-> NoRow, error |-> res.error]
             ELSE Single(res.rows)
  IN /\ conversations' = res.table
     /\ last' = IF one.error # NoError
                THEN Threw("conversations.updateStatus", ctx, args,
                           "Failed to update conversation status", one.error.message, Busy)
                ELSE Returned("conversations.updateStatus", ctx, args, one.data, Busy)
     /\ Bystanders
     /\ UNCHANGED <<customers, messages, now>>

\* updateStatus(id, status)
Conversations_updateStatus(ctx, id, status, fault) ==
  LET Hit(r) == r.id = id /\ r.brand_id = ctx.brand_id
      args == [id |-> id, status |-> status]
      res == UpdateConversation([status |-> status, updated_at |-> now], id, ctx.brand_id, fault)
      one == IF res.error # NoError THEN [data |-> NoRow, error |-> res.error]
             ELSE Single(res.rows)
  IN /\ conversations' = res.table
     /\ last' = IF one.error # NoError
                THEN Threw("conversations.updateStatus", ctx, args,
                           "Failed to update conversation status", one.error.message, Busy)
                ELSE Returned("conversations.updateStatus", ctx, args, one.data, Busy)
     /\ Bystanders
     /\ UNCHANGED <<customers, messages, now>>

\* optOut that records the opt-out but leaves the status as it is
Conversations_optOut_keepsStatus(ctx, id, reason, fault) ==
  LET args == [id |-> id, reason |-> reason]
      res == UpdateConversation([opted_out_at |-> now,
                                 opt_out_reason |-> reason,
                                 updated_at |-> now], id, ctx.brand_id, fault)
      one == IF res.error # NoError THEN [data |-> NoRow, error |-> res.error]
             ELSE Single(res.rows)
  IN /\ conversations' = res.table
     /\ last' = IF one.error # NoError
                THEN Threw("conversations.optOut", ctx, args,
                           "Failed to opt out conversation", one.error.message, Busy)
                ELSE Returned("conversations.optOut", ctx, args, one.data, Busy)
     /\ Bystanders
     /\ UNCHANGED <<customers, messages, now>>

\* optOut that also removes the messages of the conversation
Conversations_optOut_purges(ctx, id, reason, fault) ==
  LET args == [id |-> id, reason |-> reason]
      res == UpdateConversation([opted_out_at |-> now,
                                 opt_out_reason |-> reason,
                                 status |-> "archived",
                                 updated_at |-> now], id, ctx.brand_id, fault)
      one == IF res.error # NoError THEN [data |-> NoRow, error |-> res.error]
             ELSE Single(res.rows)
      Kept(m) == m.conversation_id # id
  IN /\ conversations' = res.table
     /\ messages' = IF one.error # NoError THEN messages ELSE SelectSeq(messages, Kept)
     /\ last' = IF one.error # NoError
                THEN Threw("conversations.optOut", ctx, args,
                           "Failed to opt out conversation", one.error.message, Busy)
                ELSE Returned("conversations.optOut", ctx, args, one.data, Busy)
     /\ Bystanders
     /\ UNCHANGED <<customers, now>>

\* optOut(id, reason)
Conversations_optOut(ctx, id, reason, fault) ==
  LET args == [id |-> id, reason |-> reason]
      res == UpdateConversation([opted_out_at |-> now,
                                 opt_out_reason |-> reason,
                                 status |-> "archived",
                                 updated_at |-> now], id, ctx.brand_id, fault)
      one == IF res.error # NoError THEN [data |-> NoRow, error |-> res.error]
             ELSE Single(res.rows)
  IN /\ conversations' = res.table
     /\ last' = IF one.error # NoError
                THEN Threw("conversations.optOut", ctx, args,
                           "Failed to opt out conversation", one.error.message, Busy)
                ELSE Returned("conversations.optOut", ctx, args, one.data, Busy)
     /\ Bystanders
     /\ UNCHANGED <<customers, messages, now>>

\* findOrCreate(customerId, customerPhone, brandPhone, campaignData) up to the
\* await of getByPhones
Conversations_findOrCreate_getByPhones(p, ctx, customerId, customerPhone, brandPhone, campaignData, fault) ==
  LET args == [customerId |-> customerId, customerPhone |-> customerPhone,
               brandPhone |-> brandPhone, campaignData |-> campaignData]
      existing == GetByPhones("conversations.findOrCreate", ctx, args,
                              customerPhone, brandPhone, fault, OthersBusy(p))
  IN /\ ~InFlight(p)
     /\ IF existing.outcome = "throw" \/ (existing.outcome = "ok" /\ existing.data.status = "active")
        THEN /\ Moves(p, Idle)
             /\ last' = existing
        ELSE /\ Moves(p, [pc |-> "conversations.findOrCreate.create", ctx |-> ctx,
                          args |-> args, overlap |-> OthersBusy(p)])
             /\ UNCHANGED last
     /\ UNCHANGED <<customers, conversations, messages, now>>

\* findOrCreate: return this.create({ customer_id, customer_phone, brand_phone, ...campaignData })
Conversations_findOrCreate_create(p, fault) ==
  /\ procs[p].pc = "conversations.findOrCreate.create"
  /\ LET c == procs[p]
         out == ConversationCreate("conversations.findOrCreate", c.ctx, c.args,
                                   Spread([customer_id |-> c.args.customerId,
                                           customer_phone |-> c.args.customerPhone,
                                           brand_phone |-> c.args.brandPhone],
                                          c.args.campaignData),
                                   fault, c.overlap \/ OthersBusy(p))
     IN /\ out.last.outcome = "ok" => Len(conversations) < MaxConversations
        /\ conversations' = out.table
        /\ last' = out.last
        /\ Moves(p, Idle)
  /\ UNCHANGED <<customers, messages, now>>

\* addMessage(data) up to the await of the insert into messages
Conversations_addMessage_insert(p, ctx, data, fault) ==
  LET messageData == Spread([sent_at |-> now, created_at |-> now], data)
      res == InsertMessage(messageData, fault)
      args == [data |-> data]
  IN /\ ~InFlight(p)
     /\ res.error = NoError => Len(messages) < MaxMessages
     /\ messages' = res.table
     /\ IF res.error # NoError
        THEN /\ Moves(p, Idle)
             /\ last' = Threw("conversations.addMessage", ctx, args,
                              "Failed to create message", res.error.message, OthersBusy(p))
        ELSE /\ Moves(p, [pc |-> "conversations.addMessage.update", ctx |-> ctx,
                          args |-> args, now |-> now, message |-> res.data,
                          overlap |-> OthersBusy(p)])
             /\ UNCHANGED last
     /\ UNCHANGED <<customers, conversations, now>>

\* addMessage whose update also counts the message
Conversations_addMessage_update_counts(p, fault) ==
  /\ procs[p].pc = "conversations.addMessage.update"
  /\ LET c == procs[p]
         data == c.args.data
         count == IF data.conversation_id \in 1..Len(conversations)
                  THEN conversations[data.conversation_id].message_count + 1 ELSE 1
         updateData ==
           IF data.direction = "inbound"
           THEN [last_message_at |-> c.now, updated_at |-> c.now, last_inbound_at |-> c.now,
                 message_count |-> count]
           ELSE [last_message_at |-> c.now, updated_at |-> c.now, last_outbound_at |-> c.now,
                 message_count |-> count]
         res == UpdateConversation(updateData, data.conversation_id, c.ctx.brand_id, fault)
         ov == c.overlap \/ OthersBusy(p)
     IN /\ conversations' = res.table
        /\ last' = IF res.error # NoError
                   THEN Threw("conversations.addMessage", c.ctx, c.args,
                              "Failed to update conversation stats", res.error.message, ov)
                   ELSE Returned("conversations.addMessage", c.ctx, c.args, c.message, ov)
        /\ Moves(p, Idle)
  /\ UNCHANGED <<customers, messages, now>>

\* addMessage that deletes its message again when the update fails
Conversations_addMessage_update_compensates(p, fault) ==
  /\ procs[p].pc = "conversations.addMessage.update"
  /\ LET c == procs[p]
         data == c.args.data
         updateData ==
           IF data.direction = "inbound"
           THEN [last_message_at |-> c.now, updated_at |-> c.now, last_inbound_at |-> c.now]
           ELSE [last_message_at |-> c.now, updated_at |-> c.now, last_outbound_at |-> c.now]
         res == UpdateConversation(updateData, data.conversation_id, c.ctx.brand_id, fault)
         ov == c.overlap \/ OthersBusy(p)
         Other(m) == m.id # c.message.id
     IN /\ conversations' = res.table
        /\ messages' = IF res.error # NoError THEN SelectSeq(messages, Other) ELSE messages
        /\ last' = IF res.error # NoError
                   THEN Threw("conversations.addMessage", c.ctx, c.args,
                              "Failed to update conversation stats", res.error.message, ov)
                   ELSE Returned("conversations.addMessage", c.ctx, c.args, c.message, ov)
        /\ Moves(p, Idle)
  /\ UNCHANGED <<customers, now>>

\* addMessage whose update stamps both direction columns
Conversations_addMessage_update_bothDirections(p, fault) ==
  /\ procs[p].pc = "conversations.addMessage.update"
  /\ LET c == procs[p]
         data == c.args.data
         updateData ==
           [last_message_at |-> c.now, updated_at |-> c.now,
            last_inbound_at |-> c.now, last_outbound_at |-> c.now]
         res == UpdateConversation(updateData, data.conversation_id, c.ctx.brand_id, fault)
         ov == c.overlap \/ OthersBusy(p)
     IN /\ conversations' = res.table
        /\ last' = IF res.error # NoError
                   THEN Threw("conversations.addMessage", c.ctx, c.args,
                              "Failed to update conversation stats", res.error.message, ov)
                   ELSE Returned("conversations.addMessage", c.ctx, c.args, c.message, ov)
        /\ Moves(p, Idle)
  /\ UNCHANGED <<customers, messages, now>>

\* addMessage whose update stamps the direction column only
Conversations_addMessage_update_directionOnly(p, fault) ==
  /\ procs[p].pc = "conversations.addMessage.update"
  /\ LET c == procs[p]
         data == c.args.data
         updateData ==
           Spread([updated_at |-> c.now],
                  IF data.direction = "inbound"
                  THEN [last_inbound_at |-> c.now]
                  ELSE [last_outbound_at |-> c.now])
         res == UpdateConversation(updateData, data.conversation_id, c.ctx.brand_id, fault)
         ov == c.overlap \/ OthersBusy(p)
     IN /\ conversations' = res.table
        /\ last' = IF res.error # NoError
                   THEN Threw("conversations.addMessage", c.ctx, c.args,
                              "Failed to update conversation stats", res.error.message, ov)
                   ELSE Returned("conversations.addMessage", c.ctx, c.args, c.message, ov)
        /\ Moves(p, Idle)
  /\ UNCHANGED <<customers, messages, now>>

\* addMessage: the update of the conversation stats, then return message
Conversations_addMessage_update(p, fault) ==
  /\ procs[p].pc = "conversations.addMessage.update"
  /\ LET c == procs[p]
         data == c.args.data
         updateData ==
           Spread([last_message_at |-> c.now, updated_at |-> c.now],
                  IF data.direction = "inbound"
                  THEN [last_inbound_at |-> c.now]
                  ELSE [last_outbound_at |-> c.now])
         res == UpdateConversation(updateData, data.conversation_id, c.ctx.brand_id, fault)
         ov == c.overlap \/ OthersBusy(p)
     IN /\ conversations' = res.table
        /\ last' = IF res.error # NoError
                   THEN Threw("conversations.addMessage", c.ctx, c.args,
                              "Failed to update conversation stats", res.error.message, ov)
                   ELSE Returned("conversations.addMessage", c.ctx, c.args, c.message, ov)
        /\ Moves(p, Idle)
  /\ UNCHANGED <<customers, messages, now>>

Conversations_getByCustomer(ctx, customerId, fault) ==
  LET Match(r) == r.customer_id = customerId
  IN /\ \E rows \in OrderDesc(SelectSeq(BrandConversations(ctx), Match), CreatedAt) :
          last' = ListResult("conversations.getByCustomer", ctx, [customerId |-> customerId],
                             rows, "Failed to get conversations for customer", fault)
     /\ Bystanders
     /\ UNCHANGED <<customers, conversations, messages, now>>

SentAt(r) == r.sent_at
LastMessageAt(r) == r.last_message_at

\* .from("messages").select("*").eq("conversation_id", conversationId)
\*   .order("sent_at", { ascending: false }).limit(limit)
Conversations_getMessages(ctx, conversationId, limit, fault) ==
  LET Match(r) == r.conversation_id = conversationId
  IN /\ \E rows \in OrderDesc(SelectSeq(messages, Match), SentAt) :
          last' = ListResult("conversations.getMessages", ctx,
                             [conversationId |-> conversationId, limit |-> limit],
                             Limit(rows, limit), "Failed to get messages", fault)
     /\ Bystanders
     /\ UNCHANGED <<customers, conversations, messages, now>>

\* getActive that filters on the status only
Conversations_getActive_statusOnly(ctx, limit, fault) ==
  LET Match(r) == r.status = "active"
  IN /\ \E rows \in OrderDesc(SelectSeq(BrandConversations(ctx), Match), LastMessageAt) :
          last' = ListResult("conversations.getActive", ctx, [limit |-> limit],
                             Limit(rows, limit), "Failed to get active conversations", fault)
     /\ Bystanders
     /\ UNCHANGED <<customers, conversations, messages, now>>

Conversations_getActive(ctx, limit, fault) ==
  LET Match(r) == r.status = "active" /\ r.opted_out_at = NullTime
  IN /\ \E rows \in OrderDesc(SelectSeq(BrandConversations(ctx), Match), LastMessageAt) :
          last' = ListResult("conversations.getActive", ctx, [limit |-> limit],
                             Limit(rows, limit), "Failed to get active conversations", fault)
     /\ Bystanders
     /\ UNCHANGED <<customers, conversations, messages, now>>

Conversations_search(ctx, query, limit, fault) ==
  LET Match(r) == ILike(r.customer_phone, query) \/ ILike(r.campaign_name, query)
  IN /\ \E rows \in OrderDesc(SelectSeq(BrandConversations(ctx), Match), LastMessageAt) :
          last' = ListResult("conversations.search", ctx, [query |-> query, limit |-> limit],
                             Limit(rows, limit), "Failed to search conversations", fault)
     /\ Bystanders
     /\ UNCHANGED <<customers, conversations, messages, now>>

\* select(`*, customers!inner (id, email, first_name, last_name, stage, source)`)
\*   .eq("id", id).eq("brand_id", brand_id).single()
Conversations_getWithCustomer(ctx, id, fault) ==
  LET Hit(r) == r.id = id /\ r.brand_id = ctx.brand_id
      Joined(r) ==
        LET c == customers[r.customer_id]
        IN Spread(r, [customers |-> [id |-> c.id, email |-> c.email,
                                     first_name |-> c.first_name, last_name |-> c.last_name,
                                     stage |-> c.stage, source |-> c.source]])
      hits == SelectSeq(conversations, Hit)
      res == IF fault THEN [data |-> NoRow, error |-> StoreFault]
             ELSE IF Len(hits) = 1 THEN [data |-> Joined(hits[1]), error |-> NoError]
             ELSE Single(hits)
      args == [id |-> id]
  IN /\ last' = IF res.error # NoError
                THEN Threw("conversations.getWithCustomer", ctx, args,
                           "Failed to get conversation with customer", res.error.message, Busy)
                ELSE Returned("conversations.getWithCustomer", ctx, args, res.data, Busy)
     /\ Bystanders
     /\ UNCHANGED <<customers, conversations, messages, now>>

RECURSIVE Sum(_, _)
Sum(rows, i) == IF i > Len(rows) THEN 0 ELSE rows[i].message_count + Sum(rows, i + 1)

\* timeRange: <<>> when absent, <<start, end>> otherwise
Conversations_getAnalytics(ctx, timeRange, fault) ==
  LET InRange(r) ==
        timeRange = <<>> \/ (r.created_at >= timeRange[1] /\ r.created_at <= timeRange[2])
      Status(r) == r.status
      Active(r) == r.status = "active"
      OptedOut(r) == r.opted_out_at # NullTime
      data == SelectSeq(BrandConversations(ctx), InRange)
      totalMessages == Sum(data, 1)
      analytics ==
        [total |-> Len(data),
         active |-> Count(data, Active),
         optedOut |-> Count(data, OptedOut),
         byStatus |-> CountBy(data, Status),
         \* totalMessages / data.length as the fraction <<numerator, denominator>>
         avgMessagesPerConversation |->
           IF Len(data) > 0 THEN <<totalMessages, Len(data)>> ELSE <<0, 1>>,
         totalMessages |-> totalMessages]
  IN /\ last' = ListResult("conversations.getAnalytics", ctx, [timeRange |-> timeRange],
                           analytics, "Failed to get conversation analytics", fault)
     /\ Bystanders
     /\ UNCHANGED <<customers, conversations, messages, now>>

-----------------------------------------------------------------------------
(* Callers' inputs *)

Emails == {"a@x.com", "b@x.com"}
CustomerPhones == {"+15551234567"}
BrandPhones == {"+15557654321"}
Reasons == {"STOP", Undefined}
Queries == {"A@", "555", "ann", "COM"}

DefaultLimit == 50
Limits == {1, DefaultLimit}

CustomerIds == 1..MaxCustomers
ConversationIds == 1..MaxConversations

\* create({ email }) and create({ email, phone, first_name })
CreateCustomerInputs == {[email |-> e] : e \in Emails}
CreateCustomerWithPhone ==
  {[email |-> e, phone |-> ph, first_name |-> "Ann"] : e \in Emails, ph \in CustomerPhones}

UpdateCustomerInputs == {[email |-> e] : e \in Emails}

CreateConversationInputs ==
  {[customer_id |-> c, customer_phone |-> cp, brand_phone |-> bp] :
     c \in CustomerIds, cp \in CustomerPhones, bp \in BrandPhones}

CreateMessageInputs ==
  {[conversation_id |-> c, direction |-> d, content |-> "hi"] :
     c \in ConversationIds, d \in MessageDirection}

-----------------------------------------------------------------------------
(* Specifications: the callers of one part of the package each *)

\* customers written by create, update and concurrent findOrCreate calls
NextCustomers ==
  \/ \E ctx \in Contexts, data \in CreateCustomerInputs, fault \in BOOLEAN :
       Customers_create(ctx, data, fault)
  \/ \E ctx \in Contexts, id \in CustomerIds, data \in UpdateCustomerInputs, fault \in BOOLEAN :
       Customers_update(ctx, id, data, fault)
  \/ \E p \in Procs, ctx \in Contexts, email \in Emails, fault \in BOOLEAN :
       Customers_findOrCreate_getByEmail(p, ctx, email, <<>>, fault)
  \/ \E p \in Procs, fault \in BOOLEAN :
       Customers_findOrCreate_create(p, fault)

SpecCustomers == Init /\ [][NextCustomers]_vars

\* the single-row lookups of both classes
NextLookups ==
  \/ \E ctx \in Contexts, data \in CreateCustomerWithPhone :
       Customers_create(ctx, data, FALSE)
  \/ \E ctx \in Contexts, data \in CreateConversationInputs :
       Conversations_create(ctx, data, FALSE)
  \/ \E ctx \in Contexts, id \in ConversationIds :
       Conversations_updateStatus(ctx, id, "paused", FALSE)
  \/ \E ctx \in Contexts, id \in CustomerIds, fault \in BOOLEAN :
       Customers_getById(ctx, id, fault)
  \/ \E ctx \in Contexts, email \in Emails, fault \in BOOLEAN :
       Customers_getByEmail(ctx, email, fault)
  \/ \E ctx \in Contexts, phone \in CustomerPhones, fault \in BOOLEAN :
       Customers_getByPhone(ctx, phone, fault)
  \/ \E ctx \in Contexts, id \in ConversationIds, fault \in BOOLEAN :
       Conversations_getById(ctx, id, fault)
  \/ \E ctx \in Contexts, cp \in CustomerPhones, bp \in BrandPhones, fault \in BOOLEAN :
       Conversations_getByPhones(ctx, cp, bp, fault)

SpecLookups == Init /\ [][NextLookups]_vars

\* a store that already holds one customer per brand, as create leaves them
SeedCustomers ==
  [i \in 1..2 |->
     Spread(CustomerColumnDefaults(i), [brand_id |-> BRAND_IDS[i], email |-> "a@x.com"])]

\* and one conversation of the first brand, as create leaves it
SeedConversations ==
  <<Spread(ConversationColumnDefaults(1),
           [brand_id |-> BRAND_IDS[1], customer_id |-> 1,
            customer_phone |-> "+15551234567", brand_phone |-> "+15557654321"])>>

InitCustomers ==
  /\ now = 1
  /\ customers = SeedCustomers
  /\ conversations = <<>>
  /\ messages = <<>>
  /\ procs = [q \in Procs |-> Idle]
  /\ last = NoCall
  /\ Connected

InitConversation ==
  /\ now = 1
  /\ customers = SeedCustomers
  /\ conversations = SeedConversations
  /\ messages = <<>>
  /\ procs = [q \in Procs |-> Idle]
  /\ last = NoCall
  /\ Connected

\* conversations.findOrCreate over conversations of every status
NextFindOrCreate ==
  \/ \E ctx \in Contexts, c \in CustomerIds, cp \in CustomerPhones,
        bp \in BrandPhones, fault \in BOOLEAN :
       Conversations_findOrCreate_getByPhones("c1", ctx, c, cp, bp, <<>>, fault)
  \/ \E fault \in BOOLEAN :
       Conversations_findOrCreate_create("c1", fault)
  \/ \E ctx \in Contexts, id \in ConversationIds, status \in ConversationStatus :
       Conversations_updateStatus(ctx, id, status, FALSE)

SpecFindOrCreate == InitCustomers /\ [][NextFindOrCreate]_vars

\* addMessage by callers of both brands while the clock advances
NextMessages ==
  \/ Tick
  \/ \E ctx \in Contexts, data \in CreateMessageInputs, fault \in BOOLEAN :
       Conversations_addMessage_insert("c1", ctx, data, fault)
  \/ \E fault \in BOOLEAN :
       Conversations_addMessage_update("c1", fault)

SpecMessages == InitConversation /\ [][NextMessages]_vars

\* optOut and updateStatus by callers of both brands while the clock advances
NextOptOut ==
  \/ Tick
  \/ \E ctx \in Contexts, id \in ConversationIds, status \in ConversationStatus, fault \in BOOLEAN :
       Conversations_updateStatus(ctx, id, status, fault)
  \/ \E ctx \in Contexts, id \in ConversationIds, reason \in Reasons, fault \in BOOLEAN :
       Conversations_optOut(ctx, id, reason, fault)

SpecOptOut == InitConversation /\ [][NextOptOut]_vars

\* the writes to the seeded rows of the first brand, by callers of both brands
NextWrites ==
  \/ \E ctx \in Contexts, fault \in BOOLEAN :
       Customers_update(ctx, 1, [email |-> "b@x.com"], fault)
  \/ \E ctx \in Contexts, fault \in BOOLEAN :
       Customers_progressStage(ctx, 1, "churned", fault)
  \/ \E ctx \in Contexts, fault \in BOOLEAN :
       Customers_addTags_getById("c1", ctx, 1, <<"vip">>, fault)
  \/ \E fault \in BOOLEAN :
       Customers_addTags_update("c1", fault)
  \/ \E ctx \in Contexts, fault \in BOOLEAN :
       Customers_removeTags_getById("c1", ctx, 1, <<"vip">>, fault)
  \/ \E fault \in BOOLEAN :
       Customers_removeTags_update("c1", fault)
  \/ \E ctx \in Contexts, fault \in BOOLEAN :
       Conversations_updateStatus(ctx, 1, "paused", fault)
  \/ \E ctx \in Contexts, fault \in BOOLEAN :
       Conversations_optOut(ctx, 1, "STOP", fault)

SpecWrites == InitConversation /\ [][NextWrites]_vars

\* every read, by callers of both brands, of a store in which a conversation
\* and messages are added
NextReads ==
  \/ \E ctx \in Contexts, data \in CreateConversationInputs :
       Conversations_create(ctx, data, FALSE)
  \/ \E ctx \in Contexts, c \in ConversationIds :
       Conversations_addMessage_insert("c1", ctx, [conversation_id |-> c, direction |-> "inbound",
                                                   content |-> "hi"], FALSE)
  \/ Conversations_addMessage_update("c1", FALSE)
  \/ \E ctx \in Contexts, id \in CustomerIds, fault \in BOOLEAN :
       Customers_getById(ctx, id, fault)
  \/ \E ctx \in Contexts, email \in Emails, fault \in BOOLEAN :
       Customers_getByEmail(ctx, email, fault)
  \/ \E ctx \in Contexts, phone \in CustomerPhones, fault \in BOOLEAN :
       Customers_getByPhone(ctx, phone, fault)
  \/ \E ctx \in Contexts, fault \in BOOLEAN :
       Customers_getByStage(ctx, "lead", DefaultLimit, fault)
  \/ \E ctx \in Contexts, fault \in BOOLEAN :
       Customers_search(ctx, "A@", DefaultLimit, fault)
  \/ \E ctx \in Contexts, fault \in BOOLEAN :
       Customers_getAnalytics(ctx, fault)
  \/ \E ctx \in Contexts, id \in ConversationIds, fault \in BOOLEAN :
       Conversations_getById(ctx, id, fault)
  \/ \E ctx \in Contexts, c \in CustomerIds, fault \in BOOLEAN :
       Conversations_getByCustomer(ctx, c, fault)
  \/ \E ctx \in Contexts, cp \in CustomerPhones, bp \in BrandPhones, fault \in BOOLEAN :
       Conversations_getByPhones(ctx, cp, bp, fault)
  \/ \E ctx \in Contexts, fault \in BOOLEAN :
       Conversations_getActive(ctx, DefaultLimit, fault)
  \/ \E ctx \in Contexts, fault \in BOOLEAN :
       Conversations_search(ctx, "555", DefaultLimit, fault)
  \/ \E ctx \in Contexts, id \in ConversationIds, limit \in Limits, fault \in BOOLEAN :
       Conversations_getMessages(ctx, id, limit, fault)
  \/ \E ctx \in Contexts, id \in ConversationIds, fault \in BOOLEAN :
       Conversations_getWithCustomer(ctx, id, fault)
  \/ \E ctx \in Contexts, fault \in BOOLEAN :
       Conversations_getAnalytics(ctx, <<>>, fault)

SpecReads == InitConversation /\ [][NextReads]_vars

-----------------------------------------------------------------------------
(* Read isolation *)

SingleRowReads ==
  {"customers.getById", "customers.getByEmail", "customers.getByPhone",
   "conversations.getById", "conversations.getByPhones"}

ListReads ==
  {"customers.getByStage", "customers.search", "conversations.getByCustomer",
   "conversations.getActive", "conversations.search"}

\* C1: whatever both brands have done, a read of a client of one brand returns
\* rows of that brand only: the row of a lookup, the rows of a list, the messages
\* of getMessages (those of conversations of the brand), the conversation of
\* getWithCustomer and the customer joined to it, and the rows getAnalytics counts.
C1_ReadIsolation ==
  last.outcome = "ok"
  => /\ last.op \in SingleRowReads => last.data.brand_id = last.brand
     /\ last.op \in ListReads
          => \A i \in 1..Len(last.data) : last.data[i].brand_id = last.brand
     /\ last.op = "conversations.getMessages"
          => \A i \in 1..Len(last.data) :
               conversations[last.data[i].conversation_id].brand_id = last.brand
     /\ last.op = "conversations.getWithCustomer"
          => /\ last.data.brand_id = last.brand
             /\ customers[last.data.customers.id].brand_id = last.brand
     /\ last.op = "customers.getAnalytics"
          => last.data.total = Len(BrandCustomers([brand_id |-> last.brand]))
     /\ last.op = "conversations.getAnalytics"
          => last.data.total = Len(BrandConversations([brand_id |-> last.brand]))

-----------------------------------------------------------------------------
(* Single-row lookups *)

\* what a lookup with the matching rows M of the bound brand must do
LookupContract(M, tbl, prefix, fault) ==
  IF fault
  THEN last'.outcome = "throw" /\ last'.thrown = <<prefix, StoreFault.message>>
  ELSE IF M = {}
  THEN last'.outcome = "null"
  ELSE /\ last'.outcome = "ok"
       /\ M = {last'.data.id}
       /\ last'.data = tbl[last'.data.id]

\* C4: each of the five single-row lookups returns null exactly when no row of
\* the bound brand matches its key (for getByPhones: no active row), whether or
\* not another brand has a matching row; returns the matching row when there is
\* one; and throws the store's error, wrapped, when the store fails otherwise.
C4_Lookups ==
  [][\A ctx \in Contexts, fault \in BOOLEAN :
       LET b == ctx.brand_id
           C(P(_)) == {i \in 1..Len(customers) : customers[i].brand_id = b /\ P(customers[i])}
           V(P(_)) == {i \in 1..Len(conversations) :
                        conversations[i].brand_id = b /\ P(conversations[i])}
       IN /\ \A id \in CustomerIds :
               Customers_getById(ctx, id, fault)
               => LET P(r) == r.id = id
                  IN LookupContract(C(P), customers, "Failed to get customer", fault)
          /\ \A email \in Emails :
               Customers_getByEmail(ctx, email, fault)
               => LET P(r) == r.email = email
                  IN LookupContract(C(P), customers, "Failed to get customer by email", fault)
          /\ \A phone \in CustomerPhones :
               Customers_getByPhone(ctx, phone, fault)
               => LET P(r) == r.phone = phone
                  IN LookupContract(C(P), customers, "Failed to get customer by phone", fault)
          /\ \A id \in ConversationIds :
               Conversations_getById(ctx, id, fault)
               => LET P(r) == r.id = id
                  IN LookupContract(V(P), conversations, "Failed to get conversation", fault)
          /\ \A cp \in CustomerPhones, bp \in BrandPhones :
               Conversations_getByPhones(ctx, cp, bp, fault)
               => LET P(r) == r.customer_phone = cp /\ r.brand_phone = bp /\ r.status = "active"
                  IN LookupContract(V(P), conversations,
                                    "Failed to get conversation by phones", fault)]_vars

\* getByPhone returned null to a brand without the phone while the other brand
\* has a customer with it
C4_Witness ==
  /\ last.op = "customers.getByPhone"
  /\ last.outcome = "null"
  /\ \E i \in 1..Len(customers) :
       customers[i].phone = last.args.phone /\ customers[i].brand_id # last.brand
  /\ \A i \in 1..Len(customers) :
       customers[i].brand_id = last.brand => customers[i].phone # last.args.phone

-----------------------------------------------------------------------------
(* Write isolation *)

\* a call of update or progressStage on row id
WriteCustomer(ctx, id, fault) ==
  \/ Customers_update(ctx, id, [email |-> "b@x.com"], fault)
  \/ Customers_progressStage(ctx, id, "churned", fault)

\* a call of addTags or removeTags on row id, up to its first await
WriteTags(ctx, id, fault) ==
  \/ Customers_addTags_getById("c1", ctx, id, <<"vip">>, fault)
  \/ Customers_removeTags_getById("c1", ctx, id, <<"vip">>, fault)

\* a call of one of the two conversation writes on row id
WriteConversation(ctx, id, fault) ==
  \/ Conversations_updateStatus(ctx, id, "paused", fault)
  \/ Conversations_optOut(ctx, id, "STOP", fault)

\* C2: update, progressStage, addTags, removeTags, updateStatus and optOut called
\* by a client of one brand with the id of a row of another brand throw, and they
\* leave every customer and every conversation as it was.
C2_WriteIsolation ==
  [][\A ctx \in Contexts, fault \in BOOLEAN :
       /\ (customers[1].brand_id # ctx.brand_id /\ WriteCustomer(ctx, 1, fault))
            => /\ last'.outcome = "throw"
               /\ last'.brand = ctx.brand_id
               /\ customers' = customers
               /\ conversations' = conversations
       /\ (customers[1].brand_id # ctx.brand_id /\ WriteTags(ctx, 1, fault))
            => /\ last'.outcome = "throw"
               /\ last'.brand = ctx.brand_id
               /\ customers' = customers
               /\ conversations' = conversations
               /\ procs'["c1"] = Idle
       /\ (conversations[1].brand_id # ctx.brand_id /\ WriteConversation(ctx, 1, fault))
            => /\ last'.outcome = "throw"
               /\ last'.brand = ctx.brand_id
               /\ customers' = customers
               /\ conversations' = conversations]_vars

\* a client of the second brand has called update and addTags..., on the first
\* brand's customer: here the update, refused with "no rows"
C2_Witness ==
  /\ last.op = "customers.update"
  /\ last.brand = BRAND_IDS[2]
  /\ last.args.id = 1
  /\ customers[1].brand_id = BRAND_IDS[1]
  /\ last.outcome = "throw"
  /\ last.thrown = <<"Failed to update customer", PGRST116.message>>

-----------------------------------------------------------------------------
(* addMessage *)

OwnConversation(ctx, id) ==
  id \in 1..Len(conversations) /\ conversations[id].brand_id = ctx.brand_id

\* the columns of a conversation other than the ones addMessage writes
StatsFrame(old, new) ==
  \A f \in DOMAIN old \ {"last_message_at", "last_inbound_at", "last_outbound_at", "updated_at"} :
    new[f] = old[f]

\* the insert of a successful addMessage adds one message, with the call's
\* conversation, direction and timestamp, and leaves the conversations alone
AddMessageInserts(ctx, data) ==
  (OwnConversation(ctx, data.conversation_id)
     /\ Conversations_addMessage_insert("c1", ctx, data, FALSE))
  => /\ Len(messages') = Len(messages) + 1
     /\ SubSeq(messages', 1, Len(messages)) = messages
     /\ messages'[Len(messages')].conversation_id = data.conversation_id
     /\ messages'[Len(messages')].direction = data.direction
     /\ messages'[Len(messages')].sent_at = now
     /\ conversations' = conversations
     /\ procs'["c1"].now = now

\* the update of a successful addMessage, updated_at left aside
AddMessageUpdates ==
  LET c == procs["c1"]
      id == c.args.data.conversation_id
      old == conversations[id]
      new == conversations'[id]
  IN /\ messages' = messages
     /\ \A i \in 1..Len(conversations) : i # id => conversations'[i] = conversations[i]
     /\ StatsFrame(old, new)
     /\ new.last_message_at = c.now
     /\ c.args.data.direction = "inbound"
          => new.last_inbound_at = c.now /\ new.last_outbound_at = old.last_outbound_at
     /\ c.args.data.direction = "outbound"
          => new.last_outbound_at = c.now /\ new.last_inbound_at = old.last_inbound_at
     /\ last'.outcome = "ok"
     /\ last'.data = c.message

AddMessageUpdateStep ==
  /\ procs["c1"].pc = "conversations.addMessage.update"
  /\ OwnConversation(procs["c1"].ctx, procs["c1"].args.data.conversation_id)
  /\ Conversations_addMessage_update("c1", FALSE)

C3_AddMessageOwnBrandOnly ==
  [][\A ctx \in Contexts, data \in CreateMessageInputs, fault \in BOOLEAN :
       (/\ data.conversation_id \in 1..Len(conversations)
        /\ conversations[data.conversation_id].brand_id # ctx.brand_id
        /\ Conversations_addMessage_insert("c1", ctx, data, fault))
       => messages' = messages]_vars

-----------------------------------------------------------------------------
(* optOut *)

\* C10: optOut(id, reason) on a conversation of the bound brand, whatever its
\* status, returns the stored row with opted_out_at set, opt_out_reason = reason
\* (a reason that is passed; without one the column keeps its value), status
\* archived, and canSendMessage false.
C10_OptOut ==
  [][\A ctx \in Contexts, id \in ConversationIds, reason \in Reasons :
       (OwnConversation(ctx, id) /\ Conversations_optOut(ctx, id, reason, FALSE))
       => LET c == conversations'[id]
          IN /\ last'.outcome = "ok"
             /\ last'.data = c
             /\ c.opted_out_at # NullTime
             /\ c.opted_out_at = now
             /\ reason # Undefined => c.opt_out_reason = reason
             /\ reason = Undefined => c.opt_out_reason = conversations[id].opt_out_reason
             /\ c.status = "archived"
             /\ ~canSendMessage(c)]_vars

\* optOut(1, "STOP") has returned the archived, opted-out conversation
C10_Witness ==
  /\ last.op = "conversations.optOut"
  /\ last.outcome = "ok"
  /\ last.args.reason = "STOP"
  /\ last.data.opt_out_reason = "STOP"
  /\ last.data.status = "archived"
  /\ last.data.opted_out_at = now
  /\ ~canSendMessage(conversations[last.args.id])

-----------------------------------------------------------------------------
(* customers: email uniqueness and findOrCreate *)

\* the ids of the customers of brand b with email e
WithEmail(b, e) ==
  {i \in 1..Len(customers) : customers[i].brand_id = b /\ customers[i].email = e}

DuplicateEmail == <<"Failed to create customer", UniqueViolation.message>>

\* C5: create with an email the bound brand already has fails with the wrapped
\* uniqueness error and adds no row; create with an email that only another
\* brand has succeeds and adds the row; and no two customers ever share
\* (brand_id, email).
C5_EmailUniquePerBrand ==
  /\ [](\A i, j \in 1..Len(customers) :
          (customers[i].brand_id = customers[j].brand_id
             /\ customers[i].email = customers[j].email) => i = j)
  /\ [][\A ctx \in Contexts, data \in CreateCustomerInputs :
          Customers_create(ctx, data, FALSE)
          => IF WithEmail(ctx.brand_id, data.email) # {}
             THEN /\ last'.outcome = "throw"
                  /\ last'.thrown = DuplicateEmail
                  /\ customers' = customers
             ELSE /\ last'.outcome = "ok"
                  /\ customers' = Append(customers, last'.data)
                  /\ last'.data.brand_id = ctx.brand_id
                  /\ last'.data.email = data.email]_vars

\* both brands hold the same email, and a second create of it in one of them
\* has just failed
C5_Witness ==
  /\ Len(customers) = 2
  /\ customers[1].email = customers[2].email
  /\ customers[1].brand_id # customers[2].brand_id
  /\ last.op = "customers.create"
  /\ last.args.data.email = customers[1].email
  /\ last.thrown = DuplicateEmail

\* C6: with no call in flight, a findOrCreate(email) that follows a successful
\* findOrCreate(email) of the same brand returns the same id in one step, without
\* an insert, and the brand has exactly one customer with that email.
C6_FindOrCreateTwice ==
  [][\A p \in Procs, ctx \in Contexts, email \in Emails :
       (/\ ~Busy
        /\ last.op = "customers.findOrCreate"
        /\ last.outcome = "ok"
        /\ last.brand = ctx.brand_id
        /\ last.args.email = email
        /\ Customers_findOrCreate_getByEmail(p, ctx, email, <<>>, FALSE))
       => /\ last'.op = "customers.findOrCreate"
          /\ last'.outcome = "ok"
          /\ last'.data.id = last.data.id
          /\ procs'[p] = Idle
          /\ customers' = customers
          /\ WithEmail(ctx.brand_id, email) = {last.data.id}]_vars

\* a findOrCreate has returned, undisturbed, a customer that existed before a
\* later row was added: the call found it
C6_Witness ==
  /\ last.op = "customers.findOrCreate"
  /\ last.outcome = "ok"
  /\ ~last.overlap
  /\ ~Busy
  /\ last.data.id = 1
  /\ Len(customers) = 2
  /\ customers[2].brand_id = last.brand

\* C7: whatever the interleaving, a findOrCreate that returns a customer leaves
\* exactly one row for its (brand, email), the row it returns; one that fails
\* does so with the wrapped duplicate-email error, only when another caller's
\* step came between its lookup and its insert and with exactly one row for the
\* (brand, email), or with the wrapped error of a failing store.
C7_FindOrCreateRace ==
  last.op = "customers.findOrCreate"
  => LET M == WithEmail(last.brand, last.args.email)
     IN /\ last.outcome \in {"ok", "throw"}
        /\ last.outcome = "ok"
             => M = {last.data.id} /\ customers[last.data.id] = last.data
        /\ last.outcome = "throw"
             => \/ last.thrown = DuplicateEmail /\ last.overlap /\ Cardinality(M) = 1
                \/ last.thrown = <<"Failed to create customer", StoreFault.message>>
                \/ last.thrown = <<"Failed to get customer by email", StoreFault.message>>

\* the losing call of a race has failed with the duplicate-email error
C7_Witness ==
  /\ last.op = "customers.findOrCreate"
  /\ last.thrown = DuplicateEmail
  /\ last.overlap
  /\ Cardinality(WithEmail(last.brand, last.args.email)) = 1
  /\ Len(customers) = 1

-----------------------------------------------------------------------------
(* conversations.findOrCreate *)

\* C8: with no concurrent caller and a working store, findOrCreate for a
\* customer of the bound brand succeeds and returns an active conversation of
\* the phone pair, whatever conversation the pair had before.
C8_FindOrCreateSucceeds ==
  (/\ last.op = "conversations.findOrCreate"
   /\ ~last.overlap
   /\ last.args.customerId \in 1..Len(customers)
   /\ customers[last.args.customerId].brand_id = last.brand
   /\ ~(last.outcome = "throw" /\ last.thrown[2] = StoreFault.message))
  => /\ last.outcome = "ok"
     /\ last.data.status = "active"
     /\ last.data.customer_phone = last.args.customerPhone
     /\ last.data.brand_phone = last.args.brandPhone

-----------------------------------------------------------------------------
(* Opt-out and sending *)

\* optOut and addMessage on the seeded conversation, by callers of both brands
NextSends ==
  \/ Tick
  \/ \E ctx \in Contexts, reason \in Reasons, fault \in BOOLEAN :
       Conversations_optOut(ctx, 1, reason, fault)
  \/ \E ctx \in Contexts, d \in MessageDirection, fault \in BOOLEAN :
       Conversations_addMessage_insert("c1", ctx, [conversation_id |-> 1, direction |-> d,
                                                   content |-> "hi"], fault)
  \/ \E fault \in BOOLEAN :
       Conversations_addMessage_update("c1", fault)

SpecSends == InitConversation /\ [][NextSends]_vars

\* C11: once optOut has succeeded on a conversation (its opted_out_at is set),
\* no addMessage with direction outbound adds a message to it.
C11_NoSendAfterOptOut ==
  [][\A ctx \in Contexts, fault \in BOOLEAN :
       (/\ conversations[1].opted_out_at # NullTime
        /\ Conversations_addMessage_insert("c1", ctx, [conversation_id |-> 1,
                                                       direction |-> "outbound",
                                                       content |-> "hi"], fault))
       => messages' = messages]_vars

-----------------------------------------------------------------------------
(* Journey stages *)

\* progressStage on the first customer, to every stage, by callers of both
\* brands, while the clock advances
NextStages ==
  \/ Tick
  \/ \E ctx \in Contexts, newStage \in CustomerStage, fault \in BOOLEAN :
       Customers_progressStage(ctx, 1, newStage, fault)

SpecStages == InitCustomers /\ [][NextStages]_vars

JourneyTimestamps ==
  {"marketing_qualified_at", "trial_started_at", "subscribed_at", "churned_at"}

\* the journey timestamp of a stage, if it has one
OwnTimestamp(stage) ==
  CASE stage = "marketing" -> {"marketing_qualified_at"}
    [] stage = "trial" -> {"trial_started_at"}
    [] stage = "active" -> {"subscribed_at"}
    [] stage = "churned" -> {"churned_at"}
    [] OTHER -> {}

\* a successful progressStage(1, newStage) by the customer's brand
ProgressesOwn(ctx, newStage) ==
  /\ customers[1].brand_id = ctx.brand_id
  /\ Customers_progressStage(ctx, 1, newStage, FALSE)

\* C12: progressStage to active sets stage and subscribed_at (non-null) and
\* leaves the other journey timestamps and is_active as they were; to marketing
\* or trial it changes only stage, updated_at and its own journey timestamp; to
\* lead or dormant only stage and updated_at. No other row changes.
C12_ProgressStageFrame ==
  [][\A ctx \in Contexts, newStage \in CustomerStage \ {"churned"} :
       ProgressesOwn(ctx, newStage)
       => LET old == customers[1]
              new == customers'[1]
          IN /\ last'.outcome = "ok"
             /\ last'.data = new
             /\ new.stage = newStage
             /\ \A f \in OwnTimestamp(newStage) : new[f] = now /\ new[f] # NullTime
             /\ \A f \in DOMAIN old \ ({"stage", "updated_at"} \cup OwnTimestamp(newStage)) :
                  new[f] = old[f]
             /\ customers'[2] = customers[2]]_vars

\* a churned customer was progressed to active: subscribed_at is set, while
\* churned_at and is_active = false stay
C12_Witness ==
  /\ last.op = "customers.progressStage"
  /\ last.outcome = "ok"
  /\ last.args.newStage = "active"
  /\ customers[1].stage = "active"
  /\ customers[1].subscribed_at = now
  /\ customers[1].churned_at # NullTime
  /\ customers[1].churned_at < now
  /\ customers[1].is_active = FALSE
  /\ customers[1].marketing_qualified_at = NullTime

\* C13: progressStage to churned, from every previous stage, sets stage to
\* churned, is_active to false and churned_at to a non-null timestamp.
C13_ProgressToChurned ==
  [][\A ctx \in Contexts, before \in CustomerStage :
       (customers[1].stage = before /\ ProgressesOwn(ctx, "churned"))
       => /\ last'.outcome = "ok"
          /\ last'.data = customers'[1]
          /\ customers'[1].stage = "churned"
          /\ customers'[1].is_active = FALSE
          /\ customers'[1].churned_at = now
          /\ customers'[1].churned_at # NullTime]_vars

\* a subscribed customer has been churned
C13_Witness ==
  /\ last.op = "customers.progressStage"
  /\ last.outcome = "ok"
  /\ last.args.newStage = "churned"
  /\ customers[1].stage = "churned"
  /\ customers[1].is_active = FALSE
  /\ customers[1].churned_at = now
  /\ customers[1].subscribed_at # NullTime

\* C14: a journey timestamp that is set is never changed by a later
\* progressStage call.
C14_JourneyTimestampsSetOnce ==
  [][\A ctx \in Contexts, newStage \in CustomerStage, fault \in BOOLEAN :
       Customers_progressStage(ctx, 1, newStage, fault)
       => \A f \in JourneyTimestamps :
            customers[1][f] # NullTime => customers'[1][f] = customers[1][f]]_vars

-----------------------------------------------------------------------------
(* Tags *)

TagInputs == {<<"a", "b">>, <<"b", "c">>, <<"a">>}

\* addTags and removeTags on the first customer by one caller at a time, of
\* either brand
NextTags ==
  \/ \E ctx \in Contexts, tags \in TagInputs, fault \in BOOLEAN :
       Customers_addTags_getById("c1", ctx, 1, tags, fault)
  \/ \E fault \in BOOLEAN :
       Customers_addTags_update("c1", fault)
  \/ \E ctx \in Contexts, tags \in TagInputs, fault \in BOOLEAN :
       Customers_removeTags_getById("c1", ctx, 1, tags, fault)
  \/ \E fault \in BOOLEAN :
       Customers_removeTags_update("c1", fault)

SpecTags == InitCustomers /\ [][NextTags]_vars

ToSet(s) == {s[i] : i \in 1..Len(s)}

\* the tag list addTags(tags) stores for a customer with the list existing
AddedTags(existing, tags) == Dedupe(existing \o tags)

\* C15: addTags(id, T) stores a duplicate-free list whose set is the union of
\* the previous tags (none when the column is null) and T; adding T again
\* changes nothing; and adding T1 then T2 gives the same set as T2 then T1.
C15_AddTagsUnion ==
  /\ [][(procs["c1"].pc = "customers.addTags.update" /\ Customers_addTags_update("c1", FALSE))
        => LET T == procs["c1"].args.tags
               old == TagsOrEmpty(customers[1])
               new == TagsOrEmpty(customers'[1])
           IN /\ last'.outcome = "ok"
              /\ last'.data = customers'[1]
              /\ customers'[1].tags # None
              /\ new = AddedTags(old, T)
              /\ ToSet(new) = ToSet(old) \cup ToSet(T)
              /\ Cardinality(ToSet(new)) = Len(new)
              /\ (last.op = "customers.addTags" /\ last.outcome = "ok" /\ last.args.tags = T)
                   => new = old]_vars
  /\ [](\A T1, T2 \in TagInputs :
          LET cur == TagsOrEmpty(customers[1])
          IN /\ AddedTags(AddedTags(cur, T1), T1) = AddedTags(cur, T1)
             /\ ToSet(AddedTags(AddedTags(cur, T1), T2))
                  = ToSet(AddedTags(AddedTags(cur, T2), T1)))

\* addTags(["b","c"]) after addTags(["a","b"]) has left the tags a, b, c
C15_Witness ==
  /\ last.op = "customers.addTags"
  /\ last.outcome = "ok"
  /\ last.args.tags = <<"b", "c">>
  /\ customers[1].tags = Some(<<"a", "b", "c">>)

\* C16: removeTags(id, T) leaves the previous tags minus T; addTags and
\* removeTags with an id that has no customer in the bound brand throw
\* "Customer not found" and write nothing.
C16_RemoveTags ==
  [][/\ (procs["c1"].pc = "customers.removeTags.update"
           /\ Customers_removeTags_update("c1", FALSE))
        => LET T == procs["c1"].args.tags
               old == TagsOrEmpty(customers[1])
               new == TagsOrEmpty(customers'[1])
           IN /\ last'.outcome = "ok"
              /\ last'.data = customers'[1]
              /\ ToSet(new) = ToSet(old) \ ToSet(T)
              /\ Len(new) = Cardinality(ToSet(new))
     /\ \A ctx \in Contexts, tags \in TagInputs :
          (/\ customers[1].brand_id # ctx.brand_id
           /\ \/ Customers_addTags_getById("c1", ctx, 1, tags, FALSE)
              \/ Customers_removeTags_getById("c1", ctx, 1, tags, FALSE))
          => /\ last'.outcome = "throw"
             /\ last'.thrown = <<"Customer not found">>
             /\ customers' = customers
             /\ procs'["c1"] = Idle]_vars

\* removeTags(["a"]) on a customer with the tags a and b has left b
C16_Witness ==
  /\ last.op = "customers.removeTags"
  /\ last.outcome = "ok"
  /\ last.args.tags = <<"a">>
  /\ customers[1].tags = Some(<<"b">>)

-----------------------------------------------------------------------------
(* create *)

\* inputs of create: with and without stage and source, and with fields the
\* CreateCustomer type does not have (an untyped caller)
CreateCustomerAnyInputs ==
  {[email |-> e] : e \in Emails}
  \cup {[email |-> "a@x.com", stage |-> "trial"],
        [email |-> "b@x.com", source |-> "referral"],
        [email |-> "b@x.com", stage |-> "trial", source |-> "referral"],
        [email |-> "a@x.com", brand_id |-> BRAND_IDS[2], is_active |-> FALSE]}

NextCreate ==
  \E ctx \in Contexts, data \in CreateCustomerAnyInputs, fault \in BOOLEAN :
    Customers_create(ctx, data, fault)

SpecCreate == Init /\ [][NextCreate]_vars

\* C17: a customer that create adds has the brand_id of the bound context,
\* whatever the input holds, created_by = the context's user_id (null when the
\* context has none), is_active = true, stage = the input's stage or lead, and
\* source = the input's source or website.
C17_CreateStamps ==
  [][\A ctx \in Contexts, data \in CreateCustomerAnyInputs, fault \in BOOLEAN :
       (Customers_create(ctx, data, fault) /\ customers' # customers)
       => LET r == customers'[Len(customers')]
          IN /\ customers' = Append(customers, r)
             /\ last'.outcome = "ok"
             /\ last'.data = r
             /\ r.brand_id = ctx.brand_id
             /\ r.created_by = (IF ctx.user_id = Undefined THEN NullStr ELSE ctx.user_id)
             /\ r.is_active = TRUE
             /\ r.stage = (IF "stage" \in DOMAIN data THEN data.stage ELSE "lead")
             /\ r.source = (IF "source" \in DOMAIN data THEN data.source ELSE "website")
             /\ r.email = data.email]_vars

\* a create whose input named another brand and is_active = false has added a
\* lead of the bound brand, active, from the website, created by the caller
C17_Witness ==
  /\ last.op = "customers.create"
  /\ last.outcome = "ok"
  /\ "brand_id" \in DOMAIN last.args.data
  /\ last.args.data.brand_id # last.brand
  /\ last.data.brand_id = last.brand
  /\ last.data.is_active = TRUE
  /\ last.data.stage = "lead"
  /\ last.data.source = "website"
  /\ last.data.created_by = "user-123"

-----------------------------------------------------------------------------
(* getActive *)

\* two conversations of the first brand with the same customer, on two numbers
SeedTwoConversations ==
  [i \in 1..2 |->
     Spread(ConversationColumnDefaults(i),
            [brand_id |-> BRAND_IDS[1], customer_id |-> 1,
             customer_phone |-> IF i = 1 THEN "+15551234567" ELSE "+15551234568",
             brand_phone |-> "+15557654321"])]

InitTwoConversations ==
  /\ now = 1
  /\ customers = SeedCustomers
  /\ conversations = SeedTwoConversations
  /\ messages = <<>>
  /\ procs = [q \in Procs |-> Idle]
  /\ last = NoCall
  /\ Connected

\* getActive while the conversations are paused, resumed and opted out
NextActive ==
  \/ \E ctx \in Contexts, id \in ConversationIds, status \in {"active", "paused"} :
       Conversations_updateStatus(ctx, id, status, FALSE)
  \/ \E ctx \in Contexts, id \in ConversationIds :
       Conversations_optOut(ctx, id, "STOP", FALSE)
  \/ \E ctx \in Contexts, limit \in Limits, fault \in BOOLEAN :
       Conversations_getActive(ctx, limit, fault)

SpecActive == InitTwoConversations /\ [][NextActive]_vars

\* the ids of the conversations of brand b that can be sent to
Sendable(b) ==
  {i \in 1..Len(conversations) :
     conversations[i].brand_id = b /\ canSendMessage(conversations[i])}

\* C18: getActive returns stored conversations of the bound brand that all
\* satisfy canSendMessage (status active, opted_out_at null), each once, and it
\* returns all of them or, when they are more than the limit, limit of them.
C18_GetActive ==
  [][\A ctx \in Contexts, limit \in Limits :
       (/\ last'.op = "conversations.getActive"
        /\ last'.outcome = "ok"
        /\ Conversations_getActive(ctx, limit, FALSE))
       => LET rows == last'.data
              S == Sendable(ctx.brand_id)
          IN /\ \A i \in 1..Len(rows) :
                  /\ rows[i].id \in S
                  /\ rows[i] = conversations[rows[i].id]
                  /\ rows[i].brand_id = ctx.brand_id
                  /\ rows[i].status = "active"
                  /\ rows[i].opted_out_at = NullTime
                  /\ canSendMessage(rows[i])
             /\ \A i, j \in 1..Len(rows) : rows[i].id = rows[j].id => i = j
             /\ Len(rows) = (IF Cardinality(S) < limit THEN Cardinality(S) ELSE limit)]_vars

\* getActive has returned the one sendable conversation of the brand while the
\* other one is active again after an opt-out
C18_Witness ==
  /\ last.op = "conversations.getActive"
  /\ last.outcome = "ok"
  /\ last.args.limit = DefaultLimit
  /\ Len(last.data) = 1
  /\ \E i \in 1..Len(conversations) :
       /\ conversations[i].brand_id = last.brand
       /\ conversations[i].status = "active"
       /\ conversations[i].opted_out_at # NullTime
       /\ last.data[1].id # i

-----------------------------------------------------------------------------
(* addMessage: two writes without a transaction *)

-----------------------------------------------------------------------------
(* message_count *)

\* conversations created by create and then written by every operation of
\* ConversationOperations that writes, with getAnalytics reading them
NextCounts ==
  \/ \E ctx \in Contexts, cp \in CustomerPhones, bp \in BrandPhones :
       Conversations_create(ctx, [customer_id |-> 1, customer_phone |-> cp, brand_phone |-> bp],
                            FALSE)
  \/ \E ctx \in Contexts, c \in ConversationIds :
       Conversations_addMessage_insert("c1", ctx, [conversation_id |-> c, direction |-> "outbound",
                                                   content |-> "hi"], FALSE)
  \/ \E fault \in BOOLEAN :
       Conversations_addMessage_update("c1", fault)
  \/ \E ctx \in Contexts, id \in ConversationIds :
       Conversations_updateStatus(ctx, id, "paused", FALSE)
  \/ \E ctx \in Contexts, id \in ConversationIds :
       Conversations_optOut(ctx, id, "STOP", FALSE)
  \/ \E ctx \in Contexts :
       Conversations_getAnalytics(ctx, <<>>, FALSE)

SpecCounts == InitCustomers /\ [][NextCounts]_vars

\* C20: no operation changes the message_count of a conversation, every
\* conversation that create has added has message_count = 0 however many
\* messages addMessage has appended to it, and getAnalytics reports
\* totalMessages = 0.
C20_MessageCountStaysZero ==
  /\ [](\A i \in 1..Len(conversations) : conversations[i].message_count = 0)
  /\ [][\A i \in 1..Len(conversations) :
          conversations'[i].message_count = conversations[i].message_count]_vars
  /\ []((last.op = "conversations.getAnalytics" /\ last.outcome = "ok")
          => last.data.totalMessages = 0 /\ last.data.avgMessagesPerConversation[1] = 0)

\* getAnalytics has reported no messages for a brand whose conversation holds
\* two messages
C20_Witness ==
  /\ last.op = "conversations.getAnalytics"
  /\ last.outcome = "ok"
  /\ last.data.total = 1
  /\ last.data.totalMessages = 0
  /\ Len(messages) = 2
  /\ \A i \in 1..Len(messages) :
       /\ messages[i].conversation_id \in 1..Len(conversations)
       /\ conversations[messages[i].conversation_id].brand_id = last.brand
       /\ conversations[messages[i].conversation_id].message_count = 0
       /\ conversations[messages[i].conversation_id].last_message_at # NullTime

-----------------------------------------------------------------------------
(* Tags under concurrency *)

\* two callers of the first brand run addTags and removeTags on its customer
NextTagsRace ==
  \/ \E p \in Procs, tags \in TagInputs :
       Customers_addTags_getById(p, [brand_id |-> BRAND_IDS[1], user_id |-> "user-123"],
                                 1, tags, FALSE)
  \/ \E p \in Procs : Customers_addTags_update(p, FALSE)
  \/ \E p \in Procs :
       Customers_removeTags_getById(p, [brand_id |-> BRAND_IDS[1], user_id |-> "user-123"],
                                    1, <<"a">>, FALSE)
  \/ \E p \in Procs : Customers_removeTags_update(p, FALSE)

SpecTagsRace == InitCustomers /\ [][NextTagsRace]_vars

\* C21: the write of addTags / removeTags stores what the call computed from the
\* tag list it read, whatever was written since: a tag another call stored in
\* between is lost unless the call's own list has it. When no other step came
\* between the read and the write the result is the union (the difference) with
\* the stored tags.
C21_TagsLostUpdate ==
  [][\A p \in Procs :
       /\ (procs[p].pc = "customers.addTags.update" /\ Customers_addTags_update(p, FALSE))
          => LET T == procs[p].args.tags
                 read == TagsOrEmpty(procs[p].customer)
                 stored == TagsOrEmpty(customers[1])
                 new == TagsOrEmpty(customers'[1])
             IN /\ last'.outcome = "ok"
                /\ ToSet(new) = ToSet(read) \cup ToSet(T)
                /\ \A t \in ToSet(stored) \ (ToSet(read) \cup ToSet(T)) : t \notin ToSet(new)
                /\ ~procs[p].overlap => ToSet(new) = ToSet(stored) \cup ToSet(T)
       /\ (procs[p].pc = "customers.removeTags.update" /\ Customers_removeTags_update(p, FALSE))
          => LET T == procs[p].args.tags
                 read == TagsOrEmpty(procs[p].customer)
                 stored == TagsOrEmpty(customers[1])
                 new == TagsOrEmpty(customers'[1])
             IN /\ last'.outcome = "ok"
                /\ ToSet(new) = ToSet(read) \ ToSet(T)
                /\ \A t \in ToSet(stored) \ ToSet(read) : t \notin ToSet(new)
                /\ ~procs[p].overlap => ToSet(new) = ToSet(stored) \ ToSet(T)]_vars

\* addTags(["a"]) has stored a alone although the other caller, still in flight,
\* had read the tags b and c from the store before that write: the b and c
\* another addTags stored in between are lost
C21_Witness ==
  /\ last.op = "customers.addTags"
  /\ last.outcome = "ok"
  /\ last.overlap
  /\ last.args.tags = <<"a">>
  /\ customers[1].tags = Some(<<"a">>)
  /\ InFlight("c2")
  /\ procs["c2"].customer.tags = Some(<<"b", "c">>)

-----------------------------------------------------------------------------
(* client/supabase.ts: createSupabaseClient, getSupabaseClient, *)
(* BrandAwareSupabase *)

\* !v for a string that may be undefined
Falsy(v) == v \in {Undefined, ""}

\* a || b
Either(a, b) == IF Falsy(a) THEN b ELSE a

\* the outcome of a call that leaves the module state as it is and returns v
Kept(v) == [supabaseClient |-> supabaseClient, created |-> created, thrown |-> <<>>, value |-> v]

\* createSupabaseClient that builds a connection at every call
createSupabaseClient_recreates(url, anonKey) ==
  LET supabaseUrl == Either(url, env.url)
      supabaseAnonKey == Either(anonKey, env.key)
  IN IF Falsy(supabaseUrl) \/ Falsy(supabaseAnonKey)
     THEN [supabaseClient |-> supabaseClient, created |-> created,
           thrown |-> <<"Missing Supabase configuration">>, value |-> NullClient]
     ELSE [supabaseClient |-> CreateClient(supabaseUrl, supabaseAnonKey),
           created |-> created + 1, thrown |-> <<>>,
           value |-> CreateClient(supabaseUrl, supabaseAnonKey)]

\* createSupabaseClient that keeps a half-configured connection when it throws
createSupabaseClient_keepsOnThrow(url, anonKey) ==
  LET supabaseUrl == Either(url, env.url)
      supabaseAnonKey == Either(anonKey, env.key)
  IN IF supabaseClient # NullClient THEN Kept(supabaseClient)
     ELSE IF Falsy(supabaseUrl) \/ Falsy(supabaseAnonKey)
     THEN [supabaseClient |-> CreateClient(supabaseUrl, supabaseAnonKey),
           created |-> created + 1,
           thrown |-> <<"Missing Supabase configuration">>, value |-> NullClient]
     ELSE [supabaseClient |-> CreateClient(supabaseUrl, supabaseAnonKey),
           created |-> created + 1, thrown |-> <<>>,
           value |-> CreateClient(supabaseUrl, supabaseAnonKey)]

\* createSupabaseClient(url?, anonKey?): the module state it leaves, what it
\* throws and what it returns
createSupabaseClient(url, anonKey) ==
  LET supabaseUrl == Either(url, env.url)
      supabaseAnonKey == Either(anonKey, env.key)
  IN IF supabaseClient # NullClient THEN Kept(supabaseClient)
     ELSE IF Falsy(supabaseUrl) \/ Falsy(supabaseAnonKey)
     THEN [supabaseClient |-> supabaseClient, created |-> created,
           thrown |-> <<"Missing Supabase configuration">>, value |-> NullClient]
     ELSE [supabaseClient |-> CreateClient(supabaseUrl, supabaseAnonKey),
           created |-> created + 1, thrown |-> <<>>,
           value |-> CreateClient(supabaseUrl, supabaseAnonKey)]

\* getSupabaseClient()
getSupabaseClient ==
  IF supabaseClient = NullClient THEN createSupabaseClient(Undefined, Undefined)
  ELSE Kept(supabaseClient)

\* what a caller of op sees of the outcome r
ClientCall(op, brand, args, r) ==
  [op |-> op, brand |-> brand, args |-> args,
   outcome |-> IF r.thrown = <<>> THEN "ok" ELSE "throw",
   thrown |-> r.thrown, data |-> r.value, overlap |-> FALSE]

\* a call of createSupabaseClient(url, anonKey)
Call_createSupabaseClient(url, anonKey) ==
  LET r == createSupabaseClient(url, anonKey)
  IN /\ supabaseClient' = r.supabaseClient
     /\ created' = r.created
     /\ last' = ClientCall("createSupabaseClient", "", [url |-> url, anonKey |-> anonKey], r)
     /\ UNCHANGED <<customers, conversations, messages, now, procs, env, brandClients>>

\* a call of getSupabaseClient()
Call_getSupabaseClient ==
  LET r == getSupabaseClient
  IN /\ supabaseClient' = r.supabaseClient
     /\ created' = r.created
     /\ last' = ClientCall("getSupabaseClient", "", <<>>, r)
     /\ UNCHANGED <<customers, conversations, messages, now, procs, env, brandClients>>

\* new BrandAwareSupabase(brandContext, client?): client is NullClient when the
\* argument is absent
New_BrandAwareSupabase(brandContext, client) ==
  LET r == IF client # NullClient THEN Kept(client) ELSE getSupabaseClient
  IN /\ supabaseClient' = r.supabaseClient
     /\ created' = r.created
     /\ brandClients' =
          IF r.thrown = <<>>
          THEN brandClients \cup {[brandContext |-> brandContext, client |-> r.value]}
          ELSE brandClients
     /\ last' = ClientCall("BrandAwareSupabase", brandContext.brand_id, [client |-> client], r)
     /\ UNCHANGED <<customers, conversations, messages, now, procs, env>>

\* createBrandClient(brandContext)
createBrandClient(brandContext) == New_BrandAwareSupabase(brandContext, NullClient)

\* a connection the caller made with createClient of the library
ExternalClient == [id |-> NullId - 1, url |-> "https://other.supabase.co", key |-> "other-key"]

ArgUrls == {Undefined, "", "https://arg.supabase.co"}
ArgKeys == {Undefined, "arg-anon-key"}
Envs == {[url |-> u, key |-> k] : u \in {Undefined, ConfiguredEnv.url},
                                  k \in {Undefined, "", ConfiguredEnv.key}}

\* the module as loaded: no connection, whatever the environment holds
InitModule ==
  /\ customers = <<>>
  /\ conversations = <<>>
  /\ messages = <<>>
  /\ now = 1
  /\ procs = [q \in Procs |-> Idle]
  /\ last = NoCall
  /\ supabaseClient = NullClient
  /\ env \in Envs
  /\ created = 0
  /\ brandClients = {}

NextClient ==
  \/ \E url \in ArgUrls, anonKey \in ArgKeys : Call_createSupabaseClient(url, anonKey)
  \/ Call_getSupabaseClient
  \/ \E ctx \in Contexts : New_BrandAwareSupabase(ctx, ExternalClient)
  \/ \E ctx \in Contexts : createBrandClient(ctx)

SpecClient == InitModule /\ [][NextClient]_vars

\* C22: the connection is created at most once and never replaced: once it
\* exists, createSupabaseClient with any arguments, getSupabaseClient and a
\* BrandAwareSupabase built without a client all yield it, and the clients of
\* all brands built that way hold that one connection.
C22_SingletonConnection ==
  /\ [](created \in {0, 1})
  /\ [][supabaseClient # NullClient => supabaseClient' = supabaseClient]_vars
  /\ [][supabaseClient # NullClient
          => /\ \A url \in ArgUrls, anonKey \in ArgKeys :
                  Call_createSupabaseClient(url, anonKey)
                  => last'.outcome = "ok" /\ last'.data = supabaseClient
             /\ Call_getSupabaseClient
                  => last'.outcome = "ok" /\ last'.data = supabaseClient
             /\ \A ctx \in Contexts :
                  createBrandClient(ctx)
                  => /\ last'.outcome = "ok"
                     /\ last'.data = supabaseClient
                     /\ [brandContext |-> ctx, client |-> supabaseClient] \in brandClients']_vars
  /\ [](\A c \in brandClients :
          c.client # ExternalClient => (supabaseClient # NullClient /\ c.client = supabaseClient))

\* clients of two brands share the connection the first call made, and a later
\* createSupabaseClient with other arguments has returned that same connection
C22_Witness ==
  /\ last.op = "createSupabaseClient"
  /\ last.outcome = "ok"
  /\ last.args.url = "https://arg.supabase.co"
  /\ last.data = supabaseClient
  /\ supabaseClient.url = ConfiguredEnv.url
  /\ \A ctx \in Contexts : [brandContext |-> ctx, client |-> supabaseClient] \in brandClients

\* the endpoint and the credential a call has, from its arguments or process.env
Configured(url, anonKey) == ~Falsy(Either(url, env.url)) /\ ~Falsy(Either(anonKey, env.key))

\* C23: with no connection yet, createSupabaseClient, getSupabaseClient and the
\* construction of a brand-aware client throw "Missing Supabase configuration"
\* and leave the singleton unset when the endpoint or the credential is in
\* neither the arguments nor the environment, and create the connection when
\* both are there; with a connection, construction succeeds whatever the
\* configuration.
C23_MissingConfiguration ==
  [][/\ \A url \in ArgUrls, anonKey \in ArgKeys :
          (supabaseClient = NullClient /\ Call_createSupabaseClient(url, anonKey))
          => IF Configured(url, anonKey)
             THEN /\ last'.outcome = "ok"
                  /\ supabaseClient' # NullClient
                  /\ last'.data = supabaseClient'
             ELSE /\ last'.outcome = "throw"
                  /\ last'.thrown = <<"Missing Supabase configuration">>
                  /\ supabaseClient' = NullClient
                  /\ created' = created
     /\ (supabaseClient = NullClient /\ Call_getSupabaseClient)
          => IF Configured(Undefined, Undefined)
             THEN last'.outcome = "ok" /\ supabaseClient' # NullClient
             ELSE /\ last'.outcome = "throw"
                  /\ last'.thrown = <<"Missing Supabase configuration">>
                  /\ supabaseClient' = NullClient
     /\ \A ctx \in Contexts :
          createBrandClient(ctx)
          => IF supabaseClient # NullClient \/ Configured(Undefined, Undefined)
             THEN /\ last'.outcome = "ok"
                  /\ supabaseClient' # NullClient
                  /\ [brandContext |-> ctx, client |-> supabaseClient'] \in brandClients'
             ELSE /\ last'.outcome = "throw"
                  /\ last'.thrown = <<"Missing Supabase configuration">>
                  /\ supabaseClient' = NullClient
                  /\ brandClients' = brandClients]_vars

\* in a process without the endpoint in its environment, a brand-aware client
\* was built on the connection that createSupabaseClient made from arguments
C23_Witness ==
  /\ env.url = Undefined
  /\ last.op = "BrandAwareSupabase"
  /\ last.outcome = "ok"
  /\ last.args.client = NullClient
  /\ last.data = supabaseClient
  /\ supabaseClient.url = "https://arg.supabase.co"

-----------------------------------------------------------------------------
(* Rows are kept *)

\* the caller of the first brand
Owner == [brand_id |-> BRAND_IDS[1], user_id |-> "user-123"]

\* every operation of CustomerOperations and ConversationOperations that
\* writes, on a store that starts empty
NextStore ==
  \/ \E data \in CreateCustomerInputs : Customers_create(Owner, data, FALSE)
  \/ Customers_update(Owner, 1, [email |-> "b@x.com"], FALSE)
  \/ Customers_progressStage(Owner, 1, "churned", FALSE)
  \/ Customers_findOrCreate_getByEmail("c1", Owner, "a@x.com", [email |-> "a@x.com"], FALSE)
  \/ Customers_findOrCreate_create("c1", FALSE)
  \/ Customers_addTags_getById("c1", Owner, 1, <<"vip">>, FALSE)
  \/ Customers_addTags_update("c1", FALSE)
  \/ Customers_removeTags_getById("c1", Owner, 1, <<"vip">>, FALSE)
  \/ Customers_removeTags_update("c1", FALSE)
  \/ \E cp \in CustomerPhones, bp \in BrandPhones :
       Conversations_create(Owner, [customer_id |-> 1, customer_phone |-> cp, brand_phone |-> bp],
                            FALSE)
  \/ \E cp \in CustomerPhones, bp \in BrandPhones :
       Conversations_findOrCreate_getByPhones("c1", Owner, 1, cp, bp, <<>>, FALSE)
  \/ Conversations_findOrCreate_create("c1", FALSE)
  \/ Conversations_addMessage_insert("c1", Owner, [conversation_id |-> 1, direction |-> "inbound",
                                                   content |-> "hi"], FALSE)
  \/ \E fault \in BOOLEAN :
       Conversations_addMessage_update("c1", fault)
  \/ Conversations_updateStatus(Owner, 1, "paused", FALSE)
  \/ Conversations_optOut(Owner, 1, "STOP", FALSE)

SpecStore == Init /\ [][NextStore]_vars

\* the ids of the rows of a table
Ids(table) == {table[i].id : i \in 1..Len(table)}

\* C24: no operation deletes a row or modifies a stored message: the sets of
\* customer, conversation and message ids only grow, and every stored message
\* keeps every field it was inserted with.
C24_RowsKept ==
  [][/\ Ids(customers) \subseteq Ids(customers')
     /\ Ids(conversations) \subseteq Ids(conversations')
     /\ Ids(messages) \subseteq Ids(messages')
     /\ \A i \in 1..Len(messages) :
          \E j \in 1..Len(messages') : messages'[j] = messages[i]
     /\ \A j \in 1..Len(messages') :
          (\E i \in 1..Len(messages) : messages[i].id = messages'[j].id)
          => \E i \in 1..Len(messages) : messages[i] = messages'[j]]_vars

\* optOut has archived a conversation that holds two messages, in a store with
\* two customers
C24_Witness ==
  /\ last.op = "conversations.optOut"
  /\ last.outcome = "ok"
  /\ Len(customers) = MaxCustomers
  /\ Len(messages) = MaxMessages
  /\ \A i \in 1..Len(messages) : messages[i].conversation_id = last.data.id

-----------------------------------------------------------------------------
(* Opt-out stays *)

\* every operation of ConversationOperations that writes, by callers of both
\* brands, while the clock advances
NextOptedOut ==
  \/ Tick
  \/ \E ctx \in Contexts, status \in ConversationStatus :
       Conversations_updateStatus(ctx, 1, status, FALSE)
  \/ \E ctx \in Contexts, reason \in Reasons :
       Conversations_optOut(ctx, 1, reason, FALSE)
  \/ \E ctx \in Contexts, d \in MessageDirection :
       Conversations_addMessage_insert("c1", ctx, [conversation_id |-> 1, direction |-> d,
                                                   content |-> "hi"], FALSE)
  \/ \E fault \in BOOLEAN :
       Conversations_addMessage_update("c1", fault)
  \/ \E cp \in CustomerPhones, bp \in BrandPhones :
       Conversations_findOrCreate_getByPhones("c1", Owner, 1, cp, bp, <<>>, FALSE)
  \/ Conversations_findOrCreate_create("c1", FALSE)

SpecOptedOut == InitConversation /\ [][NextOptedOut]_vars

\* C25: no operation of ConversationOperations resets opted_out_at to null:
\* a conversation that is opted out stays opted out and canSendMessage is
\* false for it in every later state, also after updateStatus(id, 'active').
C25_OptOutPermanent ==
  /\ [](\A i \in 1..Len(conversations) :
          isOptedOut(conversations[i]) => ~canSendMessage(conversations[i]))
  /\ [][\A i \in 1..Len(conversations) :
          isOptedOut(conversations[i])
          => /\ i \in 1..Len(conversations')
             /\ isOptedOut(conversations'[i])
             /\ ~canSendMessage(conversations'[i])]_vars

\* updateStatus(1, 'active') has succeeded on the opted-out conversation
C25_Witness ==
  /\ last.op = "conversations.updateStatus"
  /\ last.outcome = "ok"
  /\ last.args.status = "active"
  /\ last.data.id = 1
  /\ conversations[1].status = "active"
  /\ isOptedOut(conversations[1])
  /\ ~canSendMessage(conversations[1])

-----------------------------------------------------------------------------
(* Concurrent addMessage calls *)

\* two callers of the first brand appending to the seeded conversation while
\* the clock advances
NextAppendRace ==
  \/ Tick
  \/ \E p \in Procs, d \in MessageDirection :
       Conversations_addMessage_insert(p, Owner, [conversation_id |-> 1, direction |-> d,
                                                  content |-> "hi"], FALSE)
  \/ \E p \in Procs, fault \in BOOLEAN :
       Conversations_addMessage_update(p, fault)

SpecAppendRace == InitConversation /\ [][NextAppendRace]_vars

\* the later of two timestamps, null (the least value) when both are null
Later(a, b) == IF a >= b THEN a ELSE b

\* C26 as stated: whenever no addMessage call is in flight, last_message_at is
\* the later of last_inbound_at and last_outbound_at, also after concurrent
\* calls.
C26_LastMessageIsLatest ==
  ~Busy => \A i \in 1..Len(conversations) :
             conversations[i].last_message_at =
               Later(conversations[i].last_inbound_at, conversations[i].last_outbound_at)

\* C26: whenever no addMessage call is in flight, last_message_at is null
\* exactly when last_inbound_at and last_outbound_at both are, and otherwise
\* equals one of the two, the one the update applied last has written; it is
\* the later of the two after a successful addMessage that overlapped no other
\* call.
C26_LastMessageIsLastApplied ==
  ~Busy => \A i \in 1..Len(conversations) :
             LET c == conversations[i]
             IN /\ c.last_message_at = NullTime
                     <=> (c.last_inbound_at = NullTime /\ c.last_outbound_at = NullTime)
                /\ c.last_message_at \in {c.last_inbound_at, c.last_outbound_at}
                /\ (/\ last.op = "conversations.addMessage"
                    /\ last.outcome = "ok"
                    /\ ~last.overlap
                    /\ last.args.data.conversation_id = c.id
                    /\ last.brand = c.brand_id)
                   => c.last_message_at = Later(c.last_inbound_at, c.last_outbound_at)

\* two overlapping calls have completed, the update of the call with the
\* earlier timestamp was applied last, and last_message_at is the earlier of
\* the two direction timestamps
C26_Witness ==
  /\ ~Busy
  /\ last.op = "conversations.addMessage"
  /\ last.outcome = "ok"
  /\ last.overlap
  /\ conversations[1].last_inbound_at # NullTime
  /\ conversations[1].last_outbound_at # NullTime
  /\ conversations[1].last_message_at <
       Later(conversations[1].last_inbound_at, conversations[1].last_outbound_at)

-----------------------------------------------------------------------------
(* A conversation and its customer *)

\* C27: every conversation's brand_id is the brand_id of the customer its
\* customer_id references, after any create / findOrCreate calls by clients of
\* any brand with any existing customer ids.
C27_ConversationBrandIsCustomerBrand ==
  \A i \in 1..Len(conversations) :
    /\ conversations[i].customer_id \in 1..Len(customers)
    /\ conversations[i].brand_id = customers[conversations[i].customer_id].brand_id

\* C28: the conversation findOrCreate(customerId, customerPhone, brandPhone)
\* returns has customer_id = customerId, also when an active conversation of
\* the phone pair exists already.
C28_FindOrCreateReturnsOwnCustomer ==
  (last.op = "conversations.findOrCreate" /\ last.outcome = "ok")
    => last.data.customer_id = last.args.customerId

-----------------------------------------------------------------------------
(* Churned customers *)

\* progressStage on the first seeded customer and getByStage, by callers of
\* both brands
NextChurned ==
  \/ \E ctx \in Contexts, newStage \in CustomerStage :
       Customers_progressStage(ctx, 1, newStage, FALSE)
  \/ \E ctx \in Contexts, stage \in CustomerStage, fault \in BOOLEAN :
       Customers_getByStage(ctx, stage, DefaultLimit, fault)

SpecChurned == InitCustomers /\ [][NextChurned]_vars

\* C29: progressStage never sets is_active to true: a customer that was
\* progressed to churned stays inactive through every later progressStage, and
\* getByStage, which filters on is_active = true, returns it for no stage.
C29_ChurnedStaysInactive ==
  /\ [][\A i \in 1..Len(customers) :
          ~customers[i].is_active => ~customers'[i].is_active]_vars
  /\ [](\A i \in 1..Len(customers) :
          customers[i].churned_at # NullTime => ~customers[i].is_active)
  /\ []((last.op = "customers.getByStage" /\ last.outcome = "ok")
          => \A k \in 1..Len(last.data) :
               /\ last.data[k].is_active
               /\ last.data[k].churned_at = NullTime
               /\ customers[last.data[k].id].churned_at = NullTime)

\* customer 1 was progressed to churned and then back to active, and
\* getByStage('active') of its brand has returned no row
C29_Witness ==
  /\ customers[1].churned_at # NullTime
  /\ customers[1].stage = "active"
  /\ ~customers[1].is_active
  /\ last.op = "customers.getByStage"
  /\ last.outcome = "ok"
  /\ last.brand = customers[1].brand_id
  /\ last.args.stage = "active"
  /\ last.data = <<>>

-----------------------------------------------------------------------------
(* The direction of the last message *)

\* one caller of the first brand appending to the two seeded conversations,
\* one call after the other, while the clock advances
NextDirections ==
  \/ Tick
  \/ \E c \in ConversationIds, d \in MessageDirection :
       Conversations_addMessage_insert("c1", Owner, [conversation_id |-> c, direction |-> d,
                                                     content |-> "hi"], FALSE)
  \/ Conversations_addMessage_update("c1", FALSE)

SpecDirections == InitTwoConversations /\ [][NextDirections]_vars

\* the directions of the messages of conversation id, in the order appended
Directions(id) ==
  LET Of(m) == m.conversation_id = id
      ms == SelectSeq(messages, Of)
  IN [k \in 1..Len(ms) |-> ms[k].direction]

\* C30: after any sequence of successful, non-overlapping addMessage calls on
\* a conversation, getLastMessageDirection of the stored conversation is the
\* direction of the message appended last, and null exactly when no message
\* was appended, also when two consecutive calls obtain the same timestamp.
C30_LastMessageDirection ==
  ~Busy =>
    \A i \in 1..Len(conversations) :
      IF Directions(i) = <<>>
      THEN getLastMessageDirection(conversations[i]) = NullStr
      ELSE getLastMessageDirection(conversations[i]) = Directions(i)[Len(Directions(i))]

====
